---- MODULE Spec2Model ----
(***************************************************************************)
(* cf-edgescout: the scan scheduler (sequential scan, worker-pool scan,    *)
(* probe retries, rate gating, cancellation), together with the            *)
(* measurement validation and the scorer it feeds.                         *)
(*                                                                         *)
(* Time is a discrete clock; one unit is 100 ms (the retry pause).         *)
(* The repository holds two scheduler variants:                            *)
(*   "policy" : Scan with enrichMeasurement/ApplyValidation, sequential    *)
(*   "pool"   : Scan -> scanSequential | scanParallel (Parallelism)        *)
(***************************************************************************)
EXTENDS Integers, Sequences, FiniteSets, TLC

\* ------------------------------------------------------------------ bounds
MaxCandidates == 3      \* longest candidate list a scan works through
MaxRetries == 1         \* largest Retries value explored
MaxTime == 4            \* the clock stops advancing here
MaxParallelism == 2     \* largest worker-pool size explored
RateLimitUnits == 2     \* the positive RateLimit explored (in clock units)
MaxProviders == 3       \* longest provider list handed to FetchAll
MaxEndpoints == 2       \* longest endpoint list of a source
ProviderRateLimit == 1  \* the positive SourceConfig.RateLimit explored
MaxRecords == 3         \* records handed to one Aggregator, over all Add calls
MaxCalls == 2           \* FetchAggregated calls explored on one Fetcher
MaxPersisters == 2      \* concurrent Persist calls on one cache directory
MaxTotal == 2           \* largest total asked of the sampler
MaxRemembers == 1       \* Remember calls explored
MaxValidations == 2     \* ApplyValidation calls on one measurement
MaxIterations == 2      \* fetch-and-scan iterations of the daemon loop explored
DaemonTotal == 2        \* the total RunDaemon hands to each Scan

\* ------------------------------------------------------- program constants
maxTries == 8           \* Sampler.maxTries
RetryPause == 1         \* 100 ms between probe attempts, one clock unit
ThroughputIdeal == 50   \* 50 MiB/s, in units of 1024*1024*8 bit/s
LatencyMax == 500       \* ms
PassThreshold == 60     \* score >= 0.6, in percent

\* --------------------------------------------------------------- strings
\* strings.ToLower over the strings that occur in the model
ToLower(s) ==
    CASE s = "Trusted.Third" -> "trusted.third"
      [] s = "ORIGIN.THIRD" -> "origin.third"
      [] s = "Official" -> "official"
      [] OTHER -> s

\* strings.TrimSpace over the strings that occur in the model
TrimSpace(s) == IF s = " " THEN "" ELSE s

\* strings.EqualFold
EqualFold(a, b) == ToLower(a) = ToLower(b)

SeqToSet(s) == {s[i] : i \in 1..Len(s)}

\* --------------------------------------------------------------- candidates
\* sampler.Candidate values a scan may be handed by SampleSources
CandidatePool ==
    << [IP |-> "1.1.1.1", Network |-> "1.1.1.1/32", Family |-> "ipv4",
        Source |-> "official", Provider |-> "Official", ProviderKind |-> "official",
        Weight |-> 100, Domain |-> "", ExpectedOrigin |-> "", TrustedCNs |-> << >>],
       [IP |-> "1.0.0.2", Network |-> "1.0.0.2/32", Family |-> "ipv4",
        Source |-> "third-party", Provider |-> "Third", ProviderKind |-> "third-party",
        Weight |-> 50, Domain |-> "", ExpectedOrigin |-> "origin.third",
        TrustedCNs |-> <<"trusted.third">>],
       [IP |-> "2606::1", Network |-> "2606::/32", Family |-> "ipv6",
        Source |-> "mirror", Provider |-> "Mirror", ProviderKind |-> "third-party",
        Weight |-> 100, Domain |-> "alt.example", ExpectedOrigin |-> "",
        TrustedCNs |-> <<" ", "trusted.third">>],
       [IP |-> "1.0.0.3", Network |-> "1.0.0.0/30", Family |-> "ipv4",
        Source |-> "third-party", Provider |-> "Third", ProviderKind |-> "third-party",
        Weight |-> 50, Domain |-> "", ExpectedOrigin |-> "origin.third",
        TrustedCNs |-> << >>] >>

\* ------------------------------------------------------------- measurements
NoValidation ==
    [SNI |-> "", CertificateCN |-> "", CertificateMatch |-> FALSE, ExpectedCNs |-> << >>,
     OriginHost |-> "", ExpectedOrigin |-> "", OriginMatch |-> FALSE, Failures |-> << >>]

\* the Measurement Probe builds before any scheduler enrichment
NewMeasurement(ip, domain, shape) ==
    [IP |-> ip, Domain |-> domain,
     Success |-> shape.Success, Error |-> shape.Error,
     CertificateCN |-> shape.CertificateCN,
     CertificateDNSNames |-> shape.CertificateDNSNames,
     OriginHost |-> shape.OriginHost,
     HTTPStatus |-> shape.HTTPStatus,       \* Integrity.HTTPStatus
     StatusCode |-> shape.HTTPStatus,       \* HTTPFingerprint.StatusCode
     Latency |-> shape.Latency, Throughput |-> shape.Throughput,
     DataSource |-> "", Source |-> "", SourceType |-> "", SourceWeight |-> 0,
     Provider |-> "", Network |-> "", Family |-> "",
     Validation |-> NoValidation]

\* what the network can make a probe observe
ShapeMatch ==
    [Success |-> TRUE, Error |-> "", CertificateCN |-> "Trusted.Third",
     CertificateDNSNames |-> << >>, OriginHost |-> "ORIGIN.THIRD",
     HTTPStatus |-> 200, Latency |-> 15, Throughput |-> 50]

ShapeMismatch ==
    [Success |-> TRUE, Error |-> "", CertificateCN |-> "mismatch",
     CertificateDNSNames |-> <<"alt.mismatch">>, OriginHost |-> "other.origin",
     HTTPStatus |-> 200, Latency |-> 15, Throughput |-> 50]

ShapeFailed ==
    [Success |-> FALSE, Error |-> "tcp dial", CertificateCN |-> "",
     CertificateDNSNames |-> << >>, OriginHost |-> "",
     HTTPStatus |-> 0, Latency |-> 0, Throughput |-> 0]

ProbeShapes == {ShapeMatch, ShapeMismatch, ShapeFailed}

\* the worker pool reads Success only: one successful and one failed observation
PoolShapes == {ShapeMismatch, ShapeFailed}

NilMeasurement == NewMeasurement("", "", [Success |-> FALSE, Error |-> "nil",
       CertificateCN |-> "", CertificateDNSNames |-> << >>, OriginHost |-> "",
       HTTPStatus |-> 0, Latency |-> 0, Throughput |-> 0])

\* ---------------------------------------------------------- ApplyValidation
\* the trusted CNs lower-cased, trimmed, empty ones dropped
LowerCNs(trustedCNs) ==
    {TrimSpace(ToLower(trustedCNs[i])) : i \in 1..Len(trustedCNs)} \ {""}

CertMatches(m, trustedCNs) ==
    \E cn \in LowerCNs(trustedCNs) :
        \/ ToLower(m.CertificateCN) = cn
        \/ \E k \in 1..Len(m.CertificateDNSNames) : ToLower(m.CertificateDNSNames[k]) = cn

CertificateMatchOf(m, trustedCNs) ==
    IF Len(trustedCNs) = 0 THEN TRUE ELSE CertMatches(m, trustedCNs)

OriginMatchOf(m, expectedOrigin) ==
    IF expectedOrigin = "" THEN TRUE ELSE EqualFold(expectedOrigin, m.OriginHost)

ApplyValidation(m, expectedOrigin, trustedCNs) ==
    LET certMatch == CertificateMatchOf(m, trustedCNs)
        originMatch == OriginMatchOf(m, expectedOrigin)
        f1 == IF certMatch THEN m.Validation.Failures
              ELSE Append(m.Validation.Failures, "certificate_cn_mismatch")
        f2 == IF originMatch THEN f1 ELSE Append(f1, "origin_host_mismatch")
    IN [m EXCEPT !.Validation =
           [SNI |-> m.Domain, CertificateCN |-> m.CertificateCN,
            CertificateMatch |-> certMatch, ExpectedCNs |-> trustedCNs,
            OriginHost |-> m.OriginHost, ExpectedOrigin |-> expectedOrigin,
            OriginMatch |-> (IF originMatch THEN TRUE ELSE m.Validation.OriginMatch),
            Failures |-> f2]]

\* ------------------------------------------------------------------- scorer
\* components are in permille; the weights 0.35/0.25/0.2/0.2 are 7/5/4/4
LatencyWeight == 7
SuccessWeight == 5
ThroughputWeight == 4
IntegrityWeight == 4
\* a score is an integer in 0..ScoreOne standing for 0..1
ScoreOne == 20 * 1000 * 100 * 100

Isqrt(x) == CHOOSE r \in 0..1000 : r * r <= x /\ (r + 1) * (r + 1) > x

normaliseLatency(d) ==
    IF d <= 0 THEN 1000
    ELSE LET v == 1000 - (d * 1000) \div LatencyMax
         IN IF v < 0 THEN 0 ELSE IF v > 1000 THEN 1000 ELSE v

normaliseThroughput(t) ==
    IF t <= 0 THEN 0
    ELSE LET ratio == IF t > ThroughputIdeal THEN 1000000
                      ELSE (t * 1000000) \div ThroughputIdeal
         IN Isqrt(ratio)

normaliseIntegrity(v, status) ==
    IF Len(v.Failures) = 0 /\ status >= 200 /\ status < 400
    THEN (IF v.CertificateMatch /\ v.OriginMatch THEN 1000 ELSE 750)
    ELSE LET raw == 1000 - 250 * Len(v.Failures)
             score == IF raw < 0 THEN 0 ELSE raw
         IN IF status >= 500 THEN score \div 2 ELSE score

\* Config.SourcePreference of scorer.New, in percent
SourcePreference == [k \in {"official"} |-> 105]

sourceBoost(m) ==
    LET viaSource == IF ToLower(m.Source) \in DOMAIN SourcePreference
                     THEN SourcePreference[ToLower(m.Source)] ELSE 100
    IN IF m.Provider # "" /\ ToLower(m.Provider) \in DOMAIN SourcePreference
       THEN SourcePreference[ToLower(m.Provider)] ELSE viaSource

\* Config.GradeBoundaries of scorer.New: A 0.85, B 0.7, C 0.5, D 0
determineGrade(score) ==
    IF score >= 85 * (ScoreOne \div 100) THEN "A"
    ELSE IF score >= 70 * (ScoreOne \div 100) THEN "B"
    ELSE IF score >= 50 * (ScoreOne \div 100) THEN "C"
    ELSE IF score >= 0 THEN "D" ELSE "F"

ScoreStatus(score, failures) ==
    IF score >= PassThreshold * (ScoreOne \div 100) /\ Len(failures) = 0
    THEN "pass" ELSE "fail"

Score(m) ==
    LET latencyNorm == normaliseLatency(m.Latency)
        successNorm == IF m.Success THEN 1000 ELSE IF m.Error = "" THEN 500 ELSE 0
        throughputNorm == normaliseThroughput(m.Throughput)
        integrityNorm == normaliseIntegrity(m.Validation, m.HTTPStatus)
        weighted == latencyNorm * LatencyWeight + successNorm * SuccessWeight
                    + throughputNorm * ThroughputWeight + integrityNorm * IntegrityWeight
        boosted == weighted * sourceBoost(m)
        scaled == IF m.SourceWeight > 0 THEN boosted * m.SourceWeight ELSE boosted * 100
        score == IF scaled > ScoreOne THEN ScoreOne ELSE IF scaled < 0 THEN 0 ELSE scaled
        status == ScoreStatus(score, m.Validation.Failures)
        failures == IF status = "fail" /\ Len(m.Validation.Failures) = 0 /\ integrityNorm < 750
                    THEN Append(m.Validation.Failures, "integrity_degraded")
                    ELSE m.Validation.Failures
    IN [Score |-> score, Grade |-> determineGrade(score), Status |-> status,
        Failures |-> failures,
        Components |-> [latency |-> latencyNorm, success |-> successNorm,
                        throughput |-> throughputNorm, integrity |-> integrityNorm],
        Measurement |-> m]

\* ------------------------------------------------------------------- state
VARIABLES
    cfg,          \* Scheduler fields: [variant, Retries, RateLimit, Parallelism]
    candidates,   \* what SampleSources returned to this Scan
    ctxDone,      \* the caller's context has been cancelled
    now,          \* the clock
    store,        \* Store: the records saved so far, in order
    pc,           \* position of the goroutine running Scan
    idx,          \* range index into candidates (sequential loop / dispatcher)
    attempt,      \* tryProbe's loop variable (sequential)
    cur,          \* measurement, then record, in hand (sequential)
    lastProbe,    \* scanSequential's lastProbe; -1 is the zero time
    results,      \* the results slice
    ret,          \* what Scan returned
    timer,        \* the pending sleep of the Scan goroutine: [wakeAt, fired]
    probes,       \* history: per candidate, the Probe calls made for it
    tryRet,       \* history: per candidate, what tryProbe returned
    scanCancelled,\* scanParallel's cancel() has been called
    sem,          \* number of tokens in the semaphore channel
    workers,      \* the worker goroutines, one per dispatched candidate
    resultCh,     \* the result channel: [buf, closed]
    ticker,       \* the rate ticker: [on, next, buf, stopped]
    errSeen,      \* history: the first worker error, [seen, err]
    daemon,       \* RunDaemon: [pc, err, tick, wake, fetches, lateFetch, liveCall, total]
    fall,         \* FetchAll: [providers, pc, i, results, errs, outcomes, ret]
    prov,         \* a Provider running Fetch: [config, pc, i, lastSet, aggregated,
                  \*   errs, requested, ret]
    agg,          \* an Aggregator and its callers: [entries, added, n, adds, result,
                  \*   resulted, seen]
    fagg,         \* FetchAggregated: [configs, cacheDir, pc, calls, provs, ch, got,
                  \*   entries, errs, ret, atCall, lastCached]
    fs,           \* the cache directory: [names, data]
    pers,         \* the goroutines in Persist and a reader of the cache file
    smp,          \* a Sampler and its callers: [history, g, remembers, full]
    prb           \* a Prober's caller: [pc, m, err, step, validations, result]

seqVars == <<pc, idx, attempt, cur, lastProbe, results, timer>>
parVars == <<scanCancelled, sem, workers, resultCh, ticker, errSeen>>
vars == <<cfg, candidates, ctxDone, now, store, pc, idx, attempt, cur, lastProbe,
          results, ret, timer, probes, tryRet, scanCancelled, sem, workers, resultCh,
          ticker, errSeen, daemon, fall, prov, agg, fagg, fs, pers, smp, prb>>

\* the variables of the scans
scanVars == <<cfg, candidates, ctxDone, now, store, pc, idx, attempt, cur, lastProbe,
              results, ret, timer, probes, tryRet, scanCancelled, sem, workers,
              resultCh, ticker, errSeen>>

\* the variables of the fetcher package
fetchVars == <<fall, prov, agg, fagg, fs, pers>>

\* the variables of the packages the scheduler draws on
packageVars == <<fetchVars, smp, prb>>

\* what an action on one variable of the packages leaves alone
exceptFall == <<scanVars, daemon, prov, agg, fagg, fs, pers, smp, prb>>
exceptProv == <<daemon, fall, agg, fagg, fs, pers, smp, prb>>
exceptAgg == <<scanVars, daemon, fall, prov, fagg, fs, pers, smp, prb>>
exceptFetchAgg == <<daemon, fall, prov, agg, pers, smp, prb>>
exceptPersist == <<scanVars, daemon, fall, prov, agg, fagg, smp, prb>>
exceptSampler == <<scanVars, daemon, fall, prov, agg, fagg, fs, pers, prb>>
exceptProber == <<scanVars, daemon, fetchVars, smp>>

\* the variables outside the scans
otherVars == <<daemon, packageVars>>

NoRet == [done |-> FALSE, nilResults |-> TRUE, results |-> << >>, err |-> "nil",
          site |-> "none"]
NoTimer == [wakeAt |-> 0, fired |-> "none"]
NoWorker == [pc |-> "none", attempt |-> 0, wakeAt |-> 0, m |-> NilMeasurement]
NoTicker == [on |-> FALSE, next |-> 0, buf |-> 0, stopped |-> FALSE]
NoDaemon == [pc |-> "off", err |-> "nil", tick |-> 0, wake |-> "none", fetches |-> 0,
             lateFetch |-> FALSE, liveCall |-> FALSE, total |-> MaxCandidates]
\* the errors of FetchAll: kind "nil" is the nil error, "all" and "partial" the
\* two fmt.Errorf, each joining the provider errors
FetchAllErr(kind, errs) == [kind |-> kind, errs |-> errs]
NoFetchAllErr == FetchAllErr("nil", << >>)
NoFetchAll == [providers |-> << >>, pc |-> "off", i |-> 0, results |-> << >>,
               errs |-> << >>, outcomes |-> << >>,
               ret |-> [nilResults |-> TRUE, results |-> << >>, err |-> NoFetchAllErr]]
NoSource == [Name |-> "", Endpoints |-> << >>, RateLimit |-> 0]
NoFetchRet == [done |-> FALSE, records |-> << >>, err |-> "nil"]
NoProvider == [config |-> NoSource, pc |-> "off", i |-> 0, lastSet |-> FALSE,
               aggregated |-> << >>, errs |-> << >>, requested |-> << >>,
               ret |-> NoFetchRet]
NoAgg == [entries |-> << >>, added |-> {}, n |-> 0, adds |-> 0, result |-> << >>,
          resulted |-> FALSE, seen |-> {}]
NoCached == [has |-> FALSE, set |-> [Entries |-> << >>]]
NoAggRet == [set |-> [Entries |-> << >>], errs |-> << >>]
NoFetchAgg == [configs |-> << >>, cacheDir |-> "", pc |-> "off", calls |-> 0,
               provs |-> << >>, ch |-> << >>, got |-> 0, entries |-> << >>,
               errs |-> << >>, ret |-> NoAggRet, atCall |-> NoCached,
               lastCached |-> NoCached]
FileNames == {"ranges.json", "ranges.json.tmp"}
InodeIds == 1..4
NoFS == [names |-> [n \in FileNames |-> 0], data |-> [i \in InodeIds |-> << >>]]
NoPersist == [w |-> << >>, read |-> [done |-> FALSE, ok |-> FALSE, data |-> << >>]]
NoSampler == [history |-> {}, g |-> [k \in {} |-> {}], remembers |-> 0, full |-> FALSE]
NoProber == [pc |-> "off", m |-> NilMeasurement, err |-> "nil", step |-> "none",
             validations |-> 0, result |-> Score(NilMeasurement)]
NoTry == [returned |-> FALSE, err |-> "nil", m |-> NilMeasurement]

\* mutant: an error return hands back the results gathered so far
ReturnErrWithResults(err, site) ==
    [done |-> TRUE, nilResults |-> FALSE, results |-> results, err |-> err, site |-> site]

\* a return statement of Scan: "return nil, err" or "return results, nil";
\* site names the statement
ReturnErr(err, site) ==
    [done |-> TRUE, nilResults |-> TRUE, results |-> << >>, err |-> err, site |-> site]

ReturnResults(res) ==
    [done |-> TRUE, nilResults |-> FALSE, results |-> res, err |-> "nil", site |-> "end"]

\* the candidate lists SampleSources can hand to a scan
CandidateLists ==
    {SubSeq(CandidatePool, 1, n) : n \in {k \in 0..MaxCandidates : k <= Len(CandidatePool)}}

Configs(variants, parallelisms) ==
    [variant : variants, Retries : 0..MaxRetries,
     RateLimit : {0, RateLimitUnits}, Parallelism : parallelisms]

InitCommon ==
    /\ candidates = << >>
    /\ ctxDone = FALSE
    /\ now = 0
    /\ store = << >>
    /\ pc = "idle"
    /\ idx = 0
    /\ attempt = 0
    /\ cur = NilMeasurement
    /\ lastProbe = -1
    /\ results = << >>
    /\ ret = NoRet
    /\ timer = NoTimer
    /\ probes = [i \in 1..Len(CandidatePool) |-> << >>]
    /\ tryRet = [i \in 1..Len(CandidatePool) |-> NoTry]
    /\ scanCancelled = FALSE
    /\ sem = 0
    /\ workers = [k \in 1..Len(CandidatePool) |-> NoWorker]
    /\ resultCh = [buf |-> << >>, closed |-> FALSE]
    /\ ticker = NoTicker
    /\ errSeen = [seen |-> FALSE, err |-> "nil"]

\* no fetch is under way
FetcherIdle ==
    /\ fall = NoFetchAll
    /\ prov = NoProvider
    /\ agg = NoAgg
    /\ fagg = NoFetchAgg
    /\ fs = NoFS
    /\ pers = NoPersist

\* no sampler is in use
SamplerIdle == smp = NoSampler

ProberIdle == prb = NoProber

InitSeq ==
    /\ cfg \in Configs({"policy", "pool"}, {1})
    /\ InitCommon
    /\ daemon = NoDaemon
    /\ FetcherIdle
    /\ SamplerIdle
    /\ ProberIdle

\* ------------------------------------------------------------ environment
\* index of a sampled candidate in CandidatePool (IPs are unique)
PoolIndex(c) == CHOOSE i \in 1..Len(CandidatePool) : CandidatePool[i].IP = c.IP

\* the sleeping Scan goroutine is resumed by whichever case is ready first
Sleeping == pc \in {"gate", "pause"} /\ timer.fired = "none"

\* the context the workers of scanParallel see is done
ScanCtxDone == ctxDone \/ scanCancelled

\* a worker parked in a select on ctx.Done() is resumed by the cancellation
WakeByCtx(ws) ==
    [k \in DOMAIN ws |->
        IF ws[k].pc \in {"waitTick", "pause"} THEN [ws[k] EXCEPT !.pc = "wokenCtx"]
        ELSE ws[k]]

\* the caller cancels the context: ctx.Done() is closed
CancelCtx ==
    /\ ~ctxDone
    /\ ctxDone' = TRUE
    /\ timer' = IF Sleeping THEN [timer EXCEPT !.fired = "ctx"] ELSE timer
    /\ workers' = IF scanCancelled THEN workers ELSE WakeByCtx(workers)
    /\ UNCHANGED <<cfg, candidates, now, store, pc, idx, attempt, cur, lastProbe,
                   results, ret, probes, tryRet, scanCancelled, sem, resultCh, ticker,
                   errSeen>>

\* the caller cancels the context of a scan
Cancel == CancelCtx /\ UNCHANGED otherVars

\* the clock is observed through the rate limit and the retry pause only: time
\* passes while a goroutine sleeps, and under a rate limit also while one waits
\* to run or waits on Probe or Save
Waiting ==
    \/ pc \in {"gate", "pause"}
    \/ \E k \in DOMAIN workers : workers[k].pc \in {"waitTick", "pause"}
    \/ /\ cfg.RateLimit > 0
       /\ \/ pc \in {"probing", "save"}
          \/ \E k \in DOMAIN workers : workers[k].pc \in {"start", "probing"}

\* one entry of the probe history; the times are kept when a rate limit can
\* observe them
Stamp(t) == IF cfg.RateLimit > 0 THEN t ELSE 0

ProbeCall(at, cancelled) ==
    [at |-> Stamp(at), cancelled |-> cancelled, afterErr |-> FALSE, returned |-> FALSE,
     doneAt |-> 0, err |-> "nil", m |-> NilMeasurement]

\* the ticker is due at time t
TickerDue(t) == ticker.on /\ ~ticker.stopped /\ t >= ticker.next

\* the workers whose retry pause ends at time t
PauseOver(t) == {k \in DOMAIN workers : workers[k].pc = "pause" /\ t >= workers[k].wakeAt}

\* the workers parked on the ticker channel
Parked == {k \in DOMAIN workers : workers[k].pc = "waitTick"}

\* the workers in ks call Probe at time t (a retry counts the attempt)
StartProbes(ws, ks) ==
    [k \in DOMAIN ws |->
        IF k \notin ks THEN ws[k]
        ELSE [ws[k] EXCEPT !.pc = "probing",
                           !.attempt = IF ws[k].pc = "pause" THEN @ + 1 ELSE @]]

LoggedAll(hist, ks, t) ==
    [i \in DOMAIN hist |->
        IF \E k \in ks : k <= Len(candidates) /\ PoolIndex(candidates[k]) = i
        THEN Append(hist[i], [ProbeCall(t, ScanCtxDone) EXCEPT !.afterErr = errSeen.seen])
        ELSE hist[i]]

\* the clock advances by one unit; timers that are due fire. A tick of the
\* rate ticker goes to a worker parked on the channel, else into the
\* one-slot channel buffer, else it is dropped.
Tick ==
    /\ now < MaxTime
    /\ Waiting
    /\ now' = now + 1
    /\ timer' = IF Sleeping /\ now + 1 >= timer.wakeAt
                THEN [timer EXCEPT !.fired = "timer"] ELSE timer
    /\ IF ~TickerDue(now + 1)
       THEN /\ workers' = StartProbes(workers, PauseOver(now + 1))
            /\ probes' = LoggedAll(probes, PauseOver(now + 1), now + 1)
            /\ ticker' = ticker
       ELSE IF Parked # {}
       THEN /\ \E k \in Parked :
                 /\ workers' = StartProbes(workers, PauseOver(now + 1) \cup {k})
                 /\ probes' = LoggedAll(probes, PauseOver(now + 1) \cup {k}, now + 1)
            /\ ticker' = [ticker EXCEPT !.next = @ + cfg.RateLimit]
       ELSE /\ workers' = StartProbes(workers, PauseOver(now + 1))
            /\ probes' = LoggedAll(probes, PauseOver(now + 1), now + 1)
            /\ ticker' = [ticker EXCEPT !.next = @ + cfg.RateLimit, !.buf = 1]
    /\ UNCHANGED <<cfg, candidates, ctxDone, store, pc, idx, attempt, cur, lastProbe,
                   results, ret, tryRet, scanCancelled, sem, resultCh, errSeen>>
    /\ UNCHANGED otherVars

\* -------------------------------------------------------- sequential scan
Sequential == cfg.variant = "policy" \/ cfg.Parallelism <= 1

\* Scan: sample the candidates, then enter the loop
ScanBegin ==
    /\ pc = "idle"
    /\ daemon.pc \in {"off", "scan"}
    /\ Sequential
    /\ \/ /\ ret' = ReturnErr("sample", "sample")
          /\ pc' = "done"
          /\ UNCHANGED candidates
       \/ \E cs \in CandidateLists :
            /\ Len(cs) <= daemon.total
            /\ candidates' = cs
            /\ IF Len(cs) = 0 /\ cfg.variant = "policy"
               THEN ret' = ReturnErr("nil", "empty") /\ pc' = "done"
               ELSE ret' = ret /\ pc' = "loop"
    /\ idx' = 1
    /\ UNCHANGED <<cfg, ctxDone, now, store, attempt, cur, lastProbe, results, timer,
                   probes, tryRet>>
    /\ UNCHANGED parVars
    /\ UNCHANGED otherVars

\* sleepWithContext(ctx, d) entered at the current instant:
\* "skip" when d <= 0, "ctx" when only ctx.Done() is ready, else the goroutine sleeps
SleepEntry(d) == IF d <= 0 THEN "skip" ELSE IF ctxDone THEN "ctx" ELSE "sleep"

\* mutant: the gate measures from the start of the scan
GateWaitSinceStart == cfg.RateLimit - now

\* the time the rate gate still has to wait
GateWait == cfg.RateLimit - (now - lastProbe)

\* mutant: one attempt too many
AttemptsOneMore == cfg.Retries + 2

\* tryProbe: number of attempts
Attempts == cfg.Retries + 1

\* tryProbe: the domain probed
TargetDomain(c) ==
    IF cfg.variant = "policy" /\ c.Domain # "" THEN c.Domain ELSE "example.com"

\* the measurement variable of tryProbe when its loop is left at attempt n
LastMeasurement(hist, n) == IF n = 0 THEN NilMeasurement ELSE hist[Len(hist)].m

\* tryProbe's loop condition before attempt n: probe again, or fall out of the loop.
\* Past the loop "policy" reports exhaustion; "pool" returns its measurement
\* variable, which the caller dereferences.
EnterAttempt(n) ==
    LET i == PoolIndex(candidates[idx])
        m == LastMeasurement(probes[i], n)
    IN IF n < Attempts
       THEN /\ pc' = "probe"
            /\ attempt' = n
            /\ UNCHANGED <<ret, tryRet, cur>>
       ELSE IF cfg.variant = "policy"
       THEN /\ tryRet' = [tryRet EXCEPT ![i] =
                            [returned |-> TRUE, err |-> "exhausted", m |-> NilMeasurement]]
            /\ ret' = ReturnErr("exhausted", "probe")
            /\ pc' = "done"
            /\ UNCHANGED <<attempt, cur>>
       ELSE /\ tryRet' = [tryRet EXCEPT ![i] = [returned |-> TRUE, err |-> "nil", m |-> m]]
            /\ IF m = NilMeasurement
               THEN ret' = ReturnErr("panic", "probe") /\ pc' = "done"
               ELSE ret' = ret /\ pc' = "score"
            /\ cur' = m
            /\ UNCHANGED attempt

\* top of the for loop: leave when the list is exhausted, else pass the rate gate
LoopHead ==
    /\ pc = "loop"
    /\ IF idx > Len(candidates)
       THEN /\ ret' = ReturnResults(results)
            /\ pc' = "done"
            /\ UNCHANGED <<timer, attempt, cur, tryRet>>
       ELSE IF cfg.RateLimit > 0 /\ lastProbe # -1 /\ SleepEntry(GateWait) # "skip"
       THEN IF SleepEntry(GateWait) = "ctx"
            THEN /\ ret' = ReturnErr("ctx", "gate")
                 /\ pc' = "done"
                 /\ UNCHANGED <<timer, attempt, cur, tryRet>>
            ELSE /\ timer' = [wakeAt |-> now + GateWait, fired |-> "none"]
                 /\ pc' = "gate"
                 /\ UNCHANGED <<ret, attempt, cur, tryRet>>
       ELSE /\ EnterAttempt(0)
            /\ UNCHANGED timer
    /\ UNCHANGED <<cfg, candidates, ctxDone, now, store, idx, lastProbe, results,
                   probes>>
    /\ UNCHANGED parVars
    /\ UNCHANGED otherVars

\* the rate-gate select returns
GateResume ==
    /\ pc = "gate"
    /\ timer.fired # "none"
    /\ IF timer.fired = "ctx"
       THEN /\ ret' = ReturnErr("ctx", "gate")
            /\ pc' = "done"
            /\ UNCHANGED <<attempt, cur, tryRet>>
       ELSE EnterAttempt(0)
    /\ timer' = NoTimer
    /\ UNCHANGED <<cfg, candidates, ctxDone, now, store, idx, lastProbe, results,
                   probes>>
    /\ UNCHANGED parVars
    /\ UNCHANGED otherVars

\* tryProbe calls s.Prober.Probe
ProbeStart ==
    /\ pc = "probe"
    /\ LET i == PoolIndex(candidates[idx])
       IN probes' = [probes EXCEPT ![i] = Append(@, ProbeCall(now, ctxDone))]
    /\ pc' = "probing"
    /\ UNCHANGED <<cfg, candidates, ctxDone, now, store, idx, attempt, cur, lastProbe,
                   results, ret, timer, tryRet>>
    /\ UNCHANGED parVars
    /\ UNCHANGED otherVars

\* the last history entry of candidate i completed with (err, m)
Completed(hist, err, m) ==
    [hist EXCEPT ![Len(hist)] = [@ EXCEPT !.returned = TRUE, !.doneAt = Stamp(now),
                                          !.err = err, !.m = m]]

\* tryProbe's decision after Probe returned a measurement:
\* "return" the measurement, or "pause" before the next attempt
AfterAttempt(m, n) == IF m.Success \/ n = Attempts - 1 THEN "return" ELSE "pause"

\* Probe returns: an error, or a measurement tryProbe returns or retries
ProbeReturn ==
    /\ pc = "probing"
    /\ LET c == candidates[idx]
           i == PoolIndex(c)
       IN \/ /\ probes' = [probes EXCEPT ![i] = Completed(@, "probe", NilMeasurement)]
             /\ tryRet' = [tryRet EXCEPT ![i] =
                              [returned |-> TRUE, err |-> "probe", m |-> NilMeasurement]]
             /\ ret' = ReturnErr("probe", "probe")
             /\ pc' = "done"
             /\ UNCHANGED <<cur, timer>>
          \/ \E shape \in ProbeShapes :
               LET m == NewMeasurement(c.IP, TargetDomain(c), shape)
               IN /\ probes' = [probes EXCEPT ![i] = Completed(@, "nil", m)]
                  /\ IF AfterAttempt(m, attempt) = "return"
                     THEN /\ tryRet' = [tryRet EXCEPT ![i] =
                                           [returned |-> TRUE, err |-> "nil", m |-> m]]
                          /\ cur' = m
                          /\ pc' = "score"
                          /\ UNCHANGED <<ret, timer>>
                     ELSE IF SleepEntry(RetryPause) = "ctx"
                     THEN /\ tryRet' = [tryRet EXCEPT ![i] =
                                  [returned |-> TRUE, err |-> "ctx", m |-> NilMeasurement]]
                          /\ ret' = ReturnErr("ctx", "pause")
                          /\ pc' = "done"
                          /\ UNCHANGED <<cur, timer>>
                     ELSE /\ timer' = [wakeAt |-> now + RetryPause, fired |-> "none"]
                          /\ pc' = "pause"
                          /\ UNCHANGED <<cur, ret, tryRet>>
    /\ UNCHANGED <<cfg, candidates, ctxDone, now, store, idx, attempt, lastProbe,
                   results>>
    /\ UNCHANGED parVars
    /\ UNCHANGED otherVars

\* the retry-pause select returns
PauseResume ==
    /\ pc = "pause"
    /\ timer.fired # "none"
    /\ IF timer.fired = "ctx"
       THEN /\ tryRet' = [tryRet EXCEPT ![PoolIndex(candidates[idx])] =
                             [returned |-> TRUE, err |-> "ctx", m |-> NilMeasurement]]
            /\ ret' = ReturnErr("ctx", "pause")
            /\ pc' = "done"
            /\ UNCHANGED <<attempt, cur>>
       ELSE EnterAttempt(attempt + 1)
    /\ timer' = NoTimer
    /\ UNCHANGED <<cfg, candidates, ctxDone, now, store, idx, lastProbe, results,
                   probes>>
    /\ UNCHANGED parVars
    /\ UNCHANGED otherVars

\* enrichMeasurement ("policy"): candidate metadata, then validation
enrichMeasurement(m, c) ==
    LET d == IF c.Domain # "" THEN [m EXCEPT !.Domain = c.Domain] ELSE m
        e == [d EXCEPT !.Source = c.Source, !.Provider = c.Provider,
                       !.SourceType = c.ProviderKind, !.SourceWeight = c.Weight,
                       !.Network = c.Network, !.Family = c.Family,
                       !.DataSource = c.Source]
    IN ApplyValidation(e, c.ExpectedOrigin, c.TrustedCNs)

\* the metadata assignments of scanSequential ("pool")
AttachSource(m, c) ==
    [m EXCEPT !.Source = c.Source, !.Provider = c.Provider,
              !.SourceType = c.ProviderKind, !.Network = c.Network,
              !.Family = c.Family, !.SourceWeight = c.Weight]

\* store.Record built by Scan ("policy")
PolicyRecord(score) ==
    [Source |-> score.Measurement.Source, Score |-> score.Score, Grade |-> score.Grade,
     Status |-> score.Status, FailureReasons |-> score.Failures,
     Components |-> score.Components, Measurement |-> score.Measurement]

\* store.Record built by scanSequential and scanParallel ("pool")
PoolRecord(score) ==
    [Source |-> "", Score |-> score.Score, Grade |-> "", Status |-> "",
     FailureReasons |-> << >>,
     Components |-> score.Components, Measurement |-> score.Measurement]

\* the measurement is enriched with the candidate's metadata
Enrich ==
    /\ pc = "score"
    /\ LET c == candidates[idx]
       IN IF cfg.variant = "policy"
          THEN cur' = enrichMeasurement(cur, c) /\ UNCHANGED lastProbe
          ELSE cur' = AttachSource(cur, c) /\ lastProbe' = now
    /\ pc' = "save"
    /\ UNCHANGED <<cfg, candidates, ctxDone, now, store, idx, attempt, results, ret,
                   timer, probes, tryRet>>
    /\ UNCHANGED parVars
    /\ UNCHANGED otherVars

\* mutant: the record is saved but not appended to the results
CollectedNothing(rs, record) == rs

\* results = append(results, Result{Record: record})
Collected(rs, record) == Append(rs, record)

\* mutant: a store that keeps the latest record only
SavedAlone(records, record) == <<record>>

\* MemoryStore.Save: s.records = append(s.records, record)
Saved(records, record) == Append(records, record)

\* Store.Save: refuses a cancelled context, else appends or fails on I/O
SaveOutcomes == IF ctxDone THEN {"ctx"} ELSE {"nil", "store"}

\* the measurement is scored, the record saved and appended to the results
ScoreAndSave ==
    /\ pc = "save"
    /\ LET record == IF cfg.variant = "policy" THEN PolicyRecord(Score(cur))
                     ELSE PoolRecord(Score(cur))
       IN \E err \in SaveOutcomes :
            IF err # "nil"
            THEN /\ ret' = ReturnErr(err, "save")
                 /\ pc' = "done"
                 /\ UNCHANGED <<store, results, idx, lastProbe>>
            ELSE /\ store' = Saved(store, record)
                 /\ results' = Collected(results, record)
                 /\ lastProbe' = IF cfg.variant = "policy" THEN now ELSE lastProbe
                 /\ idx' = idx + 1
                 /\ pc' = "loop"
                 /\ UNCHANGED ret
    /\ UNCHANGED <<cfg, candidates, ctxDone, now, cur, attempt, timer, probes, tryRet>>
    /\ UNCHANGED parVars
    /\ UNCHANGED otherVars

\* ------------------------------------------------------------ parallel scan
\* mutant: the semaphore is sized by the candidate list
SemCapacityPerCandidate == Len(candidates)

\* capacity of the semaphore channel
SemCapacity == IF cfg.Parallelism <= 1 THEN 1 ELSE cfg.Parallelism

\* resultCh <- item; the channel holds len(candidates) items
Sent(ch, item) == [ch EXCEPT !.buf = Append(@, item)]

\* mutant: a result channel that holds one item
CanSendOne(ch) == Len(ch.buf) < 1

\* a send on resultCh does not block while the buffer has room
CanSend(ch) == Len(ch.buf) < Len(candidates)

ErrItem(err) == [err |-> err, rec |-> PoolRecord(Score(NilMeasurement))]

\* the first error a worker's Probe or Save returned
NoteErr(err) == IF errSeen.seen THEN errSeen ELSE [seen |-> TRUE, err |-> err]

\* Scan ("pool", Parallelism > 1): sample, then set up scanParallel
ScanBeginPar ==
    /\ pc = "idle"
    /\ ~Sequential
    /\ \/ /\ ret' = ReturnErr("sample", "sample")
          /\ pc' = "done"
          /\ UNCHANGED <<candidates, ticker>>
       \/ \E cs \in CandidateLists :
            /\ candidates' = cs
            /\ pc' = IF Len(cs) = 0 THEN "collect" ELSE "dispatch"
            /\ ticker' = IF cfg.RateLimit > 0
                         THEN [on |-> TRUE, next |-> now + cfg.RateLimit, buf |-> 0,
                               stopped |-> FALSE]
                         ELSE ticker
            /\ UNCHANGED ret
    /\ idx' = 1
    /\ UNCHANGED <<cfg, ctxDone, now, store, attempt, cur, lastProbe, results, timer,
                   probes, tryRet, scanCancelled, sem, workers, resultCh, errSeen>>
    /\ UNCHANGED otherVars

\* the dispatcher may put a token into the semaphore
SemFree == sem < SemCapacity

\* one iteration of the dispatch loop: the select on ctx.Done() only breaks out
\* of the select itself; then a semaphore slot is taken and the worker is spawned
Dispatch ==
    /\ pc = "dispatch"
    /\ SemFree
    /\ sem' = sem + 1
    /\ workers' = [workers EXCEPT ![idx] = [NoWorker EXCEPT !.pc = "start"]]
    /\ idx' = idx + 1
    /\ pc' = IF idx + 1 > Len(candidates) THEN "collect" ELSE "dispatch"
    /\ UNCHANGED <<cfg, candidates, ctxDone, now, store, attempt, cur, lastProbe, results,
                   ret, timer, probes, tryRet, scanCancelled, resultCh, ticker, errSeen>>
    /\ UNCHANGED otherVars

\* the worker's tryProbe calls s.Prober.Probe for candidate k at time t
Probing(ws, k) == [ws EXCEPT ![k].pc = "probing"]

Logged(hist, k, t) ==
    [hist EXCEPT ![PoolIndex(candidates[k])] =
        Append(@, [ProbeCall(t, ScanCtxDone) EXCEPT !.afterErr = errSeen.seen])]

\* the worker reports its outcome on resultCh and returns; its deferred calls
\* release the semaphore slot and call wg.Done()
Finished(ws, k) == [ws EXCEPT ![k].pc = "done"]

\* the cases of the worker's start select that are ready
StartReady == (IF ScanCtxDone THEN {"ctx"} ELSE {}) \cup (IF ticker.buf = 1 THEN {"tick"} ELSE {})

\* the worker goroutine starts running: without a ticker it goes straight to
\* tryProbe, else it selects on ctx.Done() and the ticker channel
WorkerStart(k) ==
    /\ workers[k].pc = "start"
    /\ IF ~ticker.on
       THEN /\ workers' = Probing(workers, k)
            /\ probes' = Logged(probes, k, now)
            /\ UNCHANGED <<resultCh, ticker, sem>>
       ELSE IF StartReady = {}
       THEN /\ workers' = [workers EXCEPT ![k].pc = "waitTick"]
            /\ UNCHANGED <<resultCh, ticker, sem, probes>>
       ELSE \E case \in StartReady :
              IF case = "ctx"
              THEN /\ CanSend(resultCh)
                   /\ resultCh' = Sent(resultCh, ErrItem("ctx"))
                   /\ workers' = Finished(workers, k)
                   /\ sem' = sem - 1
                   /\ UNCHANGED <<ticker, probes>>
              ELSE /\ ticker' = [ticker EXCEPT !.buf = 0]
                   /\ workers' = Probing(workers, k)
                   /\ probes' = Logged(probes, k, now)
                   /\ UNCHANGED <<resultCh, sem>>
    /\ UNCHANGED <<cfg, candidates, ctxDone, now, store, pc, idx, attempt, cur, lastProbe,
                   results, ret, timer, tryRet, scanCancelled, errSeen>>
    /\ UNCHANGED otherVars

\* a worker resumed by the cancellation reports ctx.Err()
WorkerWoken(k) ==
    /\ workers[k].pc = "wokenCtx"
    /\ CanSend(resultCh)
    /\ resultCh' = Sent(resultCh, ErrItem("ctx"))
    /\ workers' = Finished(workers, k)
    /\ sem' = sem - 1
    /\ UNCHANGED <<cfg, candidates, ctxDone, now, store, pc, idx, attempt, cur, lastProbe,
                   results, ret, timer, probes, tryRet, scanCancelled, ticker, errSeen>>
    /\ UNCHANGED otherVars

\* Probe returns to the worker's tryProbe
WorkerProbeReturn(k) ==
    /\ workers[k].pc = "probing"
    /\ LET c == candidates[k]
           i == PoolIndex(c)
       IN \/ /\ probes' = [probes EXCEPT ![i] = Completed(@, "probe", NilMeasurement)]
             /\ CanSend(resultCh)
             /\ resultCh' = Sent(resultCh, ErrItem("probe"))
             /\ errSeen' = NoteErr("probe")
             /\ workers' = Finished(workers, k)
             /\ sem' = sem - 1
          \/ \E shape \in PoolShapes :
               LET m == NewMeasurement(c.IP, "example.com", shape)
               IN /\ probes' = [probes EXCEPT ![i] = Completed(@, "nil", m)]
                  /\ IF AfterAttempt(m, workers[k].attempt) = "return"
                     THEN /\ workers' = [workers EXCEPT ![k].pc = "save", ![k].m = m]
                          /\ UNCHANGED <<resultCh, errSeen, sem>>
                     ELSE IF ScanCtxDone
                     THEN /\ CanSend(resultCh)
                          /\ resultCh' = Sent(resultCh, ErrItem("ctx"))
                          /\ workers' = Finished(workers, k)
                          /\ sem' = sem - 1
                          /\ UNCHANGED errSeen
                     ELSE /\ workers' = [workers EXCEPT ![k].pc = "pause",
                                                        ![k].wakeAt = now + RetryPause]
                          /\ UNCHANGED <<resultCh, errSeen, sem>>
    /\ UNCHANGED <<cfg, candidates, ctxDone, now, store, pc, idx, attempt, cur, lastProbe,
                   results, ret, timer, tryRet, scanCancelled, ticker>>
    /\ UNCHANGED otherVars

\* the worker scores the measurement as Probe returned it, saves the record
\* and reports the outcome
WorkerSave(k) ==
    /\ workers[k].pc = "save"
    /\ CanSend(resultCh)
    /\ LET record == PoolRecord(Score(workers[k].m))
       IN \E err \in (IF ScanCtxDone THEN {"ctx"} ELSE {"nil", "store"}) :
            IF err # "nil"
            THEN /\ resultCh' = Sent(resultCh, ErrItem(err))
                 /\ errSeen' = NoteErr(err)
                 /\ UNCHANGED store
            ELSE /\ store' = Append(store, record)
                 /\ resultCh' = Sent(resultCh, [err |-> "nil", rec |-> record])
                 /\ UNCHANGED errSeen
    /\ workers' = [Finished(workers, k) EXCEPT ![k].m = NilMeasurement]
    /\ sem' = sem - 1
    /\ UNCHANGED <<cfg, candidates, ctxDone, now, pc, idx, attempt, cur, lastProbe,
                   results, ret, timer, probes, tryRet, scanCancelled, ticker>>
    /\ UNCHANGED otherVars

\* wg.Wait() has returned: every spawned worker called wg.Done()
AllWorkersDone == \A k \in 1..Len(candidates) : workers[k].pc = "done"

\* the closing goroutine: after wg.Wait() stop the ticker and close the channel
CloseResults ==
    /\ pc \in {"collect", "done"}
    /\ idx > Len(candidates)
    /\ ~resultCh.closed
    /\ AllWorkersDone
    /\ resultCh' = [resultCh EXCEPT !.closed = TRUE]
    /\ ticker' = IF ticker.on THEN [ticker EXCEPT !.stopped = TRUE] ELSE ticker
    /\ UNCHANGED <<cfg, candidates, ctxDone, now, store, pc, idx, attempt, cur, lastProbe,
                   results, ret, timer, probes, tryRet, scanCancelled, sem, workers,
                   errSeen>>
    /\ UNCHANGED otherVars

\* the collecting loop takes the next item: an error cancels and returns,
\* a record is appended; a closed, drained channel ends the scan
Collect ==
    /\ pc = "collect"
    /\ IF resultCh.buf # << >>
       THEN LET item == Head(resultCh.buf)
            IN /\ resultCh' = [resultCh EXCEPT !.buf = Tail(@)]
               /\ IF item.err # "nil"
                  THEN /\ ret' = ReturnErr(item.err, "collect")
                       /\ pc' = "done"
                       /\ scanCancelled' = TRUE
                       /\ workers' = IF ScanCtxDone THEN workers ELSE WakeByCtx(workers)
                       /\ UNCHANGED results
                  ELSE /\ results' = Collected(results, item.rec)
                       /\ UNCHANGED <<ret, pc, scanCancelled, workers>>
       ELSE /\ resultCh.closed
            /\ ret' = ReturnResults(results)
            /\ pc' = "done"
            /\ scanCancelled' = TRUE
            /\ UNCHANGED <<resultCh, results, workers>>
    /\ UNCHANGED <<cfg, candidates, ctxDone, now, store, idx, attempt, cur, lastProbe,
                   timer, probes, tryRet, sem, ticker, errSeen>>
    /\ UNCHANGED otherVars

InitPar ==
    /\ cfg \in Configs({"pool"}, 2..MaxParallelism)
    /\ InitCommon
    /\ daemon = NoDaemon
    /\ FetcherIdle
    /\ SamplerIdle
    /\ ProberIdle

NextPar ==
    \/ Cancel
    \/ Tick
    \/ ScanBeginPar
    \/ Dispatch
    \/ \E k \in 1..MaxCandidates : WorkerStart(k)
    \/ \E k \in 1..MaxCandidates : WorkerWoken(k)
    \/ \E k \in 1..MaxCandidates : WorkerProbeReturn(k)
    \/ \E k \in 1..MaxCandidates : WorkerSave(k)
    \/ CloseResults
    \/ Collect

SpecPar == InitPar /\ [][NextPar]_vars

NextSeq ==
    \/ Cancel
    \/ Tick
    \/ ScanBegin
    \/ LoopHead
    \/ GateResume
    \/ ProbeStart
    \/ ProbeReturn
    \/ PauseResume
    \/ Enrich
    \/ ScoreAndSave

SpecSeq == InitSeq /\ [][NextSeq]_vars

\* ------------------------------------------------------------- RunDaemon
\* the locals of a fresh call of Scan
FreshScan ==
    /\ candidates' = << >>
    /\ pc' = "idle"
    /\ idx' = 0
    /\ attempt' = 0
    /\ cur' = NilMeasurement
    /\ lastProbe' = -1
    /\ results' = << >>
    /\ ret' = NoRet
    /\ timer' = NoTimer
    /\ probes' = [i \in 1..Len(CandidatePool) |-> << >>]
    /\ tryRet' = [i \in 1..Len(CandidatePool) |-> NoTry]

\* a return statement of RunDaemon
DaemonReturn(d, err) == [d EXCEPT !.pc = "returned", !.err = err]

\* RunDaemon is called: a nil fetch is refused, else the ticker is started
DaemonCall ==
    /\ daemon.pc = "call"
    /\ \/ daemon' = DaemonReturn(daemon, "nofetch")
       \/ daemon' = [daemon EXCEPT !.pc = "fetch", !.liveCall = ~ctxDone]
    /\ UNCHANGED <<cfg, candidates, ctxDone, now, store, pc, idx, attempt, cur, lastProbe,
                   results, ret, timer, probes, tryRet>>
    /\ UNCHANGED parVars
    /\ UNCHANGED packageVars

\* top of the loop: fetch(ctx) returns an error, which ends the daemon, or the
\* ranges, with which Scan is called
DaemonFetch ==
    /\ daemon.pc = "fetch"
    /\ daemon.fetches < MaxIterations
    /\ LET d == [daemon EXCEPT !.fetches = @ + 1,
                               !.lateFetch = @ \/ (daemon.fetches >= 1 /\ ctxDone)]
       IN \/ /\ daemon' = DaemonReturn(d, "fetch")
             /\ UNCHANGED <<candidates, pc, idx, attempt, cur, lastProbe, results, ret,
                            timer, probes, tryRet>>
          \/ /\ daemon' = [d EXCEPT !.pc = "scan"]
             /\ FreshScan
    /\ UNCHANGED <<cfg, ctxDone, now, store>>
    /\ UNCHANGED parVars
    /\ UNCHANGED packageVars

\* the cases of the daemon's select that are ready
SelectReady ==
    (IF ctxDone THEN {"ctx"} ELSE {}) \cup (IF daemon.tick = 1 THEN {"tick"} ELSE {})

\* the daemon leaves its select by the given case
SelectTaken(d, case) ==
    IF case = "ctx" THEN DaemonReturn(d, "ctx")
    ELSE [d EXCEPT !.pc = "fetch", !.tick = 0, !.wake = "none"]

\* Scan has returned: its error ends the daemon; else the daemon selects on
\* ctx.Done() and the ticker, taking any ready case or parking
DaemonAfterScan ==
    /\ daemon.pc = "scan"
    /\ ret.done
    /\ IF ret.err # "nil"
       THEN daemon' = DaemonReturn(daemon, ret.err)
       ELSE IF SelectReady = {}
       THEN daemon' = [daemon EXCEPT !.pc = "select"]
       ELSE \E case \in SelectReady : daemon' = SelectTaken(daemon, case)
    /\ UNCHANGED <<cfg, candidates, ctxDone, now, store, pc, idx, attempt, cur, lastProbe,
                   results, ret, timer, probes, tryRet>>
    /\ UNCHANGED parVars
    /\ UNCHANGED packageVars

\* the parked select returns by the case that woke it
DaemonResume ==
    /\ daemon.pc = "select"
    /\ daemon.wake # "none"
    /\ daemon' = SelectTaken(daemon, daemon.wake)
    /\ UNCHANGED <<cfg, candidates, ctxDone, now, store, pc, idx, attempt, cur, lastProbe,
                   results, ret, timer, probes, tryRet>>
    /\ UNCHANGED parVars
    /\ UNCHANGED packageVars

\* the daemon's ticker fires: the tick wakes the parked select, else it is
\* kept in the channel's one-slot buffer
DaemonTickerFires ==
    /\ daemon.pc \in {"fetch", "scan", "select"}
    /\ IF daemon.pc = "select"
       THEN daemon.wake = "none" /\ daemon' = [daemon EXCEPT !.wake = "tick"]
       ELSE daemon.tick = 0 /\ daemon' = [daemon EXCEPT !.tick = 1]
    /\ UNCHANGED <<cfg, candidates, ctxDone, now, store, pc, idx, attempt, cur, lastProbe,
                   results, ret, timer, probes, tryRet>>
    /\ UNCHANGED parVars
    /\ UNCHANGED packageVars

\* the caller cancels the daemon's context, which wakes a parked select
DaemonCancel ==
    /\ CancelCtx
    /\ daemon' = IF daemon.pc = "select" /\ daemon.wake = "none"
                 THEN [daemon EXCEPT !.wake = "ctx"] ELSE daemon
    /\ UNCHANGED packageVars

InitDaemon ==
    /\ cfg \in Configs({"policy"}, {1})
    /\ InitCommon
    /\ daemon = [NoDaemon EXCEPT !.pc = "call", !.total = DaemonTotal]
    /\ FetcherIdle
    /\ SamplerIdle
    /\ ProberIdle

NextDaemon ==
    \/ DaemonCancel
    \/ DaemonCall
    \/ DaemonFetch
    \/ DaemonAfterScan
    \/ DaemonResume
    \/ DaemonTickerFires
    \/ Tick
    \/ ScanBegin
    \/ LoopHead
    \/ GateResume
    \/ ProbeStart
    \/ ProbeReturn
    \/ PauseResume
    \/ Enrich
    \/ ScoreAndSave

SpecDaemon == InitDaemon /\ [][NextDaemon]_vars

\* ==================================================================
\* Fetcher.FetchAll over ProviderSpecs (src/fetcher/aggregator.go)
\* ==================================================================
\* a network as an endpoint delivers it: its String() and whether IP.To4() # nil
Net(str, isV4) == [s |-> str, v4 |-> isV4]

NoNets == << >>

\* an EndpointSpec with what the server behind it does: no URL at all, any
\* transport, status or format error, or the networks parsed from the reply
NoEndpoint == [URL |-> "", fails |-> FALSE, nets |-> NoNets]
FailingEndpoint == [URL |-> "u", fails |-> TRUE, nets |-> NoNets]
ServingEndpoint(nets) == [URL |-> "u", fails |-> FALSE, nets |-> nets]

Replies4 == {NoEndpoint, FailingEndpoint,
             ServingEndpoint(<<Net("1.1.1.0/24", TRUE), Net("1.1.1.0/24", TRUE)>>)}
Replies6 == {NoEndpoint, FailingEndpoint,
             ServingEndpoint(<<Net("2606::/32", FALSE), Net("2.2.2.0/24", TRUE)>>)}

ProviderNames == {"official", "mirror", "third"}

\* the ProviderSpecs, each with the behaviour of its two endpoints
ProviderSpecs == [Name : ProviderNames, IPv4 : Replies4, IPv6 : Replies6]

\* the provider lists handed to FetchAll: distinct providers, in any order
ProviderLists ==
    UNION {{l \in [1..n -> ProviderSpecs] :
              \A i, j \in 1..n : i # j => l[i].Name # l[j].Name} : n \in 0..MaxProviders}

\* fetchEndpoint: (nil, nil) without URL, else the error or the parsed networks
fetchEndpoint(endpoint) ==
    IF endpoint.URL = "" THEN [nets |-> NoNets, err |-> "nil"]
    ELSE IF endpoint.fails THEN [nets |-> NoNets, err |-> "fail"]
    ELSE [nets |-> endpoint.nets, err |-> "nil"]

\* an error of FetchProvider: fmt.Errorf("%s ipv4: %w", provider.Name, err)
ProviderErr(name, family) == [provider |-> name, family |-> family]

\* FetchProvider: the IPv4 endpoint, then the IPv6 endpoint; the first error
\* is returned with an empty SourceRange
FetchProvider(provider) ==
    LET ipv4 == fetchEndpoint(provider.IPv4)
        ipv6 == fetchEndpoint(provider.IPv6)
    IN  IF ipv4.err # "nil"
        THEN [ok |-> FALSE, err |-> ProviderErr(provider.Name, "ipv4"),
              source |-> [Provider |-> provider.Name, IPv4 |-> NoNets, IPv6 |-> NoNets]]
        ELSE IF ipv6.err # "nil"
        THEN [ok |-> FALSE, err |-> ProviderErr(provider.Name, "ipv6"),
              source |-> [Provider |-> provider.Name, IPv4 |-> NoNets, IPv6 |-> NoNets]]
        ELSE [ok |-> TRUE, err |-> ProviderErr(provider.Name, "nil"),
              source |-> [Provider |-> provider.Name, IPv4 |-> ipv4.nets,
                          IPv6 |-> ipv6.nets]]

\* deduplicateRanges: one network per String(), IPv4 networks found in the
\* IPv6 list moved to the IPv4 list; the maps leave the order unspecified, so
\* the lists are kept as sets
deduplicateRanges(source) ==
    LET all6 == SeqToSet(source.IPv6)
    IN  [Provider |-> source.Provider,
         IPv4 |-> {n.s : n \in SeqToSet(source.IPv4) \cup {m \in all6 : m.v4}},
         IPv6 |-> {n.s : n \in {m \in all6 : ~m.v4}}]

\* mutant: any failed provider makes the whole call fail
FetchAllReturnHardOnAny(res, errs) ==
    IF Len(res) = 0 \/ Len(errs) > 0
    THEN [nilResults |-> TRUE, results |-> << >>, err |-> FetchAllErr("all", errs)]
    ELSE [nilResults |-> FALSE, results |-> res, err |-> NoFetchAllErr]

\* the return statements that end FetchAll
FetchAllReturn(res, errs) ==
    IF Len(res) = 0
    THEN [nilResults |-> TRUE, results |-> << >>, err |-> FetchAllErr("all", errs)]
    ELSE IF Len(errs) > 0
    THEN [nilResults |-> FALSE, results |-> res, err |-> FetchAllErr("partial", errs)]
    ELSE [nilResults |-> FALSE, results |-> res, err |-> NoFetchAllErr]

\* FetchAll is called: an empty provider list is refused
FetchAllCall ==
    /\ fall.pc = "call"
    /\ fall' = IF Len(fall.providers) = 0
               THEN [fall EXCEPT !.pc = "returned",
                                 !.ret = [nilResults |-> TRUE, results |-> << >>,
                                          err |-> FetchAllErr("noproviders", << >>)]]
               ELSE [fall EXCEPT !.pc = "loop", !.i = 1]
    /\ UNCHANGED exceptFall

\* one turn of the loop: FetchProvider; an error is noted, a success is
\* deduplicated and appended
FetchAllStep ==
    /\ fall.pc = "loop"
    /\ fall.i <= Len(fall.providers)
    /\ LET r == FetchProvider(fall.providers[fall.i])
       IN fall' = [fall EXCEPT
                     !.i = @ + 1,
                     !.outcomes = Append(@, r),
                     !.errs = IF r.ok THEN @ ELSE Append(@, r.err),
                     !.results = IF r.ok THEN Append(@, deduplicateRanges(r.source))
                                 ELSE @]
    /\ UNCHANGED exceptFall

\* after the loop: the hard error, the partial error, or plain success
FetchAllEnd ==
    /\ fall.pc = "loop"
    /\ fall.i > Len(fall.providers)
    /\ fall' = [fall EXCEPT !.pc = "returned",
                            !.ret = FetchAllReturn(fall.results, fall.errs)]
    /\ UNCHANGED exceptFall

InitFetchAll ==
    /\ cfg = [variant |-> "policy", Retries |-> 0, RateLimit |-> 0, Parallelism |-> 1]
    /\ InitCommon
    /\ daemon = NoDaemon
    /\ pers = NoPersist
    /\ smp = NoSampler
    /\ prb = NoProber
    /\ prov = NoProvider
    /\ agg = NoAgg
    /\ fagg = NoFetchAgg
    /\ fs = NoFS
    /\ fall \in {[NoFetchAll EXCEPT !.providers = l, !.pc = "call"] : l \in ProviderLists}

NextFetchAll ==
    \/ FetchAllCall
    \/ FetchAllStep
    \/ FetchAllEnd

SpecFetchAll == InitFetchAll /\ [][NextFetchAll]_vars

\* ==================================================================
\* Provider.Fetch over a SourceConfig (src/fetcher/source.go)
\* ==================================================================
\* the endpoints of a source: the URL is the position in Endpoints
SourceEndpoint(url, fails, nets) == [URL |-> url, fails |-> fails, nets |-> nets]

NetA == Net("1.1.1.0/24", TRUE)
NetB == Net("10.0.0.0/24", TRUE)

\* what the server behind an endpoint answers: an error (transport, status or
\* parser), or the networks the Parser returned
EndpointReplies == {[fails |-> TRUE, nets |-> NoNets], [fails |-> FALSE, nets |-> NoNets],
                    [fails |-> FALSE, nets |-> <<NetA>>],
                    [fails |-> FALSE, nets |-> <<NetB, NetA>>]}

EndpointURLs == <<"https://h/e1", "https://h/e2", "https://h/e3">>

EndpointLists ==
    UNION {{[i \in 1..n |-> SourceEndpoint(EndpointURLs[i], r[i].fails, r[i].nets)] :
               r \in [1..n -> EndpointReplies]} :
           n \in {k \in 1..MaxEndpoints : k <= Len(EndpointURLs)}}

\* the SourceConfigs of one name
SourceConfigs(name) ==
    [Name : {name}, Endpoints : EndpointLists, RateLimit : {0, ProviderRateLimit}]

\* ProviderFactory.Build: a fresh Provider, its last request time zero
Build(config) == [NoProvider EXCEPT !.config = config, !.pc = "loop", !.i = 1]

\* the records of one endpoint's networks
Records(config, endpoint) ==
    [k \in 1..Len(endpoint.nets) |->
        [Network |-> endpoint.nets[k].s,
         Metadata |-> [Source |-> config.Name, Endpoint |-> endpoint.URL]]]

\* mutant: the loop is left at the first endpoint that yields records
RequestThenStop(p, done) ==
    LET endpoint == p.config.Endpoints[p.i]
        q == [p EXCEPT !.requested = Append(@, endpoint.URL), !.pc = "loop"]
    IN  IF done \/ endpoint.fails
        THEN [q EXCEPT !.errs = Append(@, endpoint.URL), !.i = @ + 1]
        ELSE [q EXCEPT !.aggregated = @ \o Records(p.config, endpoint),
                       !.i = IF Len(endpoint.nets) > 0 THEN Len(p.config.Endpoints) + 1
                             ELSE @ + 1]

\* the loop body after the rate-limit wait: the request, which fails on a
\* cancelled context or by the server's doing, else the parsed networks are
\* appended as records; either way the loop goes on to the next endpoint
Request(p, done) ==
    LET endpoint == p.config.Endpoints[p.i]
        q == [p EXCEPT !.requested = Append(@, endpoint.URL), !.pc = "loop"]
    IN  IF done \/ endpoint.fails
        THEN [q EXCEPT !.errs = Append(@, endpoint.URL), !.i = @ + 1]
        ELSE [q EXCEPT !.aggregated = @ \o Records(p.config, endpoint), !.i = @ + 1]

\* the return statements of Provider.Fetch; an error is the list of the
\* endpoints' errors, "ctx" the context's, "allfailed" the one made up when
\* no endpoint reported any
FetchReturn(p) ==
    [p EXCEPT !.pc = "done",
              !.ret = IF Len(p.aggregated) > 0
                      THEN [done |-> TRUE, records |-> p.aggregated, err |-> "nil"]
                      ELSE IF Len(p.errs) = 0
                      THEN [done |-> TRUE, records |-> << >>, err |-> "allfailed"]
                      ELSE [done |-> TRUE, records |-> << >>, err |-> "endpoints"]]

FetchReturnCtx(p) ==
    [p EXCEPT !.pc = "done",
              !.ret = [done |-> TRUE, records |-> << >>, err |-> "ctx"]]

\* one step of the goroutine running Provider.Fetch, done telling whether the
\* context is cancelled: the provider states the step may lead to.
\* waitForRateLimit returns at once without RateLimit, on the first request,
\* and when the limit has elapsed; else it selects on ctx.Done() and its timer
FetchSteps(p, done) ==
    IF p.pc = "loop"
    THEN IF p.i > Len(p.config.Endpoints) THEN {FetchReturn(p)}
         ELSE IF p.config.RateLimit <= 0 THEN {Request(p, done)}
         ELSE IF ~p.lastSet THEN {Request([p EXCEPT !.lastSet = TRUE], done)}
         ELSE {Request(p, done), [p EXCEPT !.pc = "wait"]}
    ELSE IF p.pc = "wait"
    THEN {Request(p, done)} \cup (IF done THEN {FetchReturnCtx(p)} ELSE {})
    ELSE {}

\* the goroutine running Provider.Fetch takes a step
ProviderStep ==
    /\ \E q \in FetchSteps(prov, ctxDone) : prov' = q
    /\ UNCHANGED scanVars
    /\ UNCHANGED exceptProv

InitProvider ==
    /\ cfg = [variant |-> "policy", Retries |-> 0, RateLimit |-> 0, Parallelism |-> 1]
    /\ InitCommon
    /\ daemon = NoDaemon
    /\ pers = NoPersist
    /\ smp = NoSampler
    /\ prb = NoProber
    /\ fall = NoFetchAll
    /\ agg = NoAgg
    /\ fagg = NoFetchAgg
    /\ fs = NoFS
    /\ prov \in {Build(c) : c \in SourceConfigs("primary")}

NextProvider ==
    \/ ProviderStep
    \/ Cancel

SpecProvider == InitProvider /\ [][NextProvider]_vars

\* ==================================================================
\* Aggregator (src/fetcher/aggregator.go)
\* ==================================================================
\* the bytes of the strings that occur as networks, sources and endpoints
Bytes(s) ==
    CASE s = "" -> <<>>
      [] s = "1.1.1.0/24" -> <<49, 46, 49, 46, 49, 46, 48, 47, 50, 52>>
      [] s = "10.0.0.0/24" -> <<49, 48, 46, 48, 46, 48, 46, 48, 47, 50, 52>>
      [] s = "2.2.2.0/24" -> <<50, 46, 50, 46, 50, 46, 48, 47, 50, 52>>
      [] s = "2606::/32" -> <<50, 54, 48, 54, 58, 58, 47, 51, 50>>
      [] s = "<nil>" -> <<60, 110, 105, 108, 62>>
      [] s = "a" -> <<97>>
      [] s = "b" -> <<98>>
      [] s = "primary" -> <<112, 114, 105, 109, 97, 114, 121>>
      [] s = "backup" -> <<98, 97, 99, 107, 117, 112>>
      [] s = "https://h/e1" -> <<104, 116, 116, 112, 115, 58, 47, 47, 104, 47, 101, 49>>
      [] s = "https://h/e2" -> <<104, 116, 116, 112, 115, 58, 47, 47, 104, 47, 101, 50>>
      [] s = "https://h/e3" -> <<104, 116, 116, 112, 115, 58, 47, 47, 104, 47, 101, 51>>

\* Go's < on strings: bytewise, a proper prefix first
RECURSIVE BytesLess(_, _)
BytesLess(x, y) ==
    IF Len(y) = 0 THEN FALSE
    ELSE IF Len(x) = 0 THEN TRUE
    ELSE IF Head(x) # Head(y) THEN Head(x) < Head(y)
    ELSE BytesLess(Tail(x), Tail(y))

StringLess(a, b) == BytesLess(Bytes(a), Bytes(b))

\* a nil *net.IPNet, by its String()
NilNetwork == "<nil>"

\* NewAggregator: the empty entries map
NewAggregator == [k \in {} |-> << >>]

\* Aggregator.Add under its mutex: records without network are skipped, the
\* others are filed under Network.String(), metadata appended
RECURSIVE Add(_, _)
Add(entries, records) ==
    IF Len(records) = 0 THEN entries
    ELSE LET record == Head(records)
             key == record.Network
             merged == IF key = NilNetwork THEN entries
                       ELSE [k \in DOMAIN entries \cup {key} |->
                               IF k = key
                               THEN (IF key \in DOMAIN entries THEN entries[key] ELSE << >>)
                                    \o <<record.Metadata>>
                               ELSE entries[k]]
         IN  Add(merged, Tail(records))

\* the comparison Result sorts metadata by
MetaLess(x, y) ==
    IF x.Source = y.Source THEN StringLess(x.Endpoint, y.Endpoint)
    ELSE StringLess(x.Source, y.Source)

\* sort.Slice over one entry's metadata
RECURSIVE InsertMeta(_, _)
InsertMeta(m, sorted) ==
    IF Len(sorted) = 0 THEN <<m>>
    ELSE IF MetaLess(m, Head(sorted)) THEN <<m>> \o sorted
    ELSE <<Head(sorted)>> \o InsertMeta(m, Tail(sorted))

RECURSIVE SortMeta(_)
SortMeta(meta) ==
    IF Len(meta) = 0 THEN << >> ELSE InsertMeta(Head(meta), SortMeta(Tail(meta)))

\* mutant: the entries are sorted with the comparison reversed
ResultDescending(entries) ==
    LET keys == DOMAIN entries
        rank(k) == Cardinality({j \in keys : StringLess(k, j)}) + 1
    IN  [Entries |-> [n \in 1..Cardinality(keys) |->
                        LET k == CHOOSE j \in keys : rank(j) = n
                        IN  [Network |-> k, Metadata |-> SortMeta(entries[k])]]]

\* Aggregator.Result under its mutex: a copy of every entry with its metadata
\* sorted by (Source, Endpoint), the entries sorted by Network.String()
Result(entries) ==
    LET keys == DOMAIN entries
        rank(k) == Cardinality({j \in keys : StringLess(j, k)}) + 1
    IN  [Entries |-> [n \in 1..Cardinality(keys) |->
                        LET k == CHOOSE j \in keys : rank(j) = n
                        IN  [Network |-> k, Metadata |-> SortMeta(entries[k])]]]

EmptySet == [Entries |-> << >>]

\* the records callers hand to Add
RecordPool ==
    [Network : {"10.0.0.0/24", "2.2.2.0/24", NilNetwork},
     Metadata : [Source : {"a", "b"}, Endpoint : {"https://h/e1", "https://h/e2"}]]

\* the slices of up to k records handed to one Add
RecordBatches(k) ==
    UNION {[1..n -> RecordPool] : n \in 1..k}

\* some goroutine calls Add(records); the mutex makes the call one step
AggAdd ==
    /\ agg.n < MaxRecords
    /\ \E records \in RecordBatches(MaxRecords - agg.n) :
         agg' = [agg EXCEPT !.entries = Add(@, records),
                            !.added = @ \cup SeqToSet(records),
                            !.n = @ + Len(records),
                            !.adds = @ + 1]
    /\ UNCHANGED exceptAgg

\* some goroutine calls Result()
AggResult ==
    /\ agg' = [agg EXCEPT !.result = Result(agg.entries).Entries, !.resulted = TRUE,
                           !.seen = agg.added]
    /\ UNCHANGED exceptAgg

InitAggregator ==
    /\ cfg = [variant |-> "policy", Retries |-> 0, RateLimit |-> 0, Parallelism |-> 1]
    /\ InitCommon
    /\ daemon = NoDaemon
    /\ pers = NoPersist
    /\ smp = NoSampler
    /\ prb = NoProber
    /\ fall = NoFetchAll
    /\ prov = NoProvider
    /\ fagg = NoFetchAgg
    /\ fs = NoFS
    /\ agg = [NoAgg EXCEPT !.entries = NewAggregator]

NextAggregator ==
    \/ AggAdd
    \/ AggResult

SpecAggregator == InitAggregator /\ [][NextAggregator]_vars

\* ==================================================================
\* The cache directory (os.WriteFile, os.Rename, os.ReadFile)
\* ==================================================================
\* the inodes some name of the directory refers to
Named(f) == {f.names[n] : n \in FileNames} \ {0}

\* an inode neither named nor held open is gone, and its number free again
Scrub(f, held) ==
    [f EXCEPT !.data = [i \in InodeIds |->
                          IF i \in Named(f) \cup held THEN f.data[i] ELSE << >>]]

\* open(name, O_WRONLY|O_CREATE|O_TRUNC): the file's inode, created if the
\* name is absent, emptied either way
OpenTrunc(f, name, held) ==
    LET ino == IF f.names[name] # 0 THEN f.names[name]
               ELSE CHOOSE i \in InodeIds :
                        /\ i \notin Named(f) \cup held
                        /\ \A j \in InodeIds : j \notin Named(f) \cup held => i <= j
    IN  [fs |-> [names |-> [f.names EXCEPT ![name] = ino],
                 data |-> [f.data EXCEPT ![ino] = << >>]],
         ino |-> ino]

\* write(fd, payload) from offset 0, then close(fd); held are the inodes
\* other descriptors keep open
WriteAll(f, ino, payload, held) ==
    Scrub([f EXCEPT !.data[ino] = <<payload>>], held)

\* rename(from, to): fails when from is absent, else to refers to from's inode
Rename(f, from, to, held) ==
    IF f.names[from] = 0 THEN [fs |-> f, ok |-> FALSE]
    ELSE [fs |-> Scrub([f EXCEPT !.names = [f.names EXCEPT ![to] = f.names[from],
                                                        ![from] = 0]], held),
          ok |-> TRUE]

\* os.ReadFile(name)
ReadFile(f, name) ==
    IF f.names[name] = 0 THEN [ok |-> FALSE, data |-> << >>]
    ELSE [ok |-> TRUE, data |-> f.data[f.names[name]]]

\* json.MarshalIndent of an AggregatedSet: the text, named by the set it encodes
Marshal(set) == [json |-> set]

\* json.Unmarshal: an empty or cut-off file does not decode
Unmarshal(data) ==
    IF Len(data) = 1 THEN [ok |-> TRUE, set |-> data[1].json]
    ELSE [ok |-> FALSE, set |-> EmptySet]

\* AggregatedSet.Persist by a caller alone in the directory: WriteFile of the
\* temporary file, then the rename
Persist(f, set, cacheDir) ==
    IF cacheDir = "" THEN [fs |-> f, ok |-> TRUE]
    ELSE LET opened == OpenTrunc(f, "ranges.json.tmp", {})
             written == WriteAll(opened.fs, opened.ino, Marshal(set), {})
         IN  Rename(written, "ranges.json.tmp", "ranges.json", {})

\* LoadAggregatedFromCache
LoadAggregatedFromCache(f, cacheDir) ==
    IF cacheDir = "" THEN [ok |-> FALSE, set |-> EmptySet]
    ELSE LET file == ReadFile(f, "ranges.json")
         IN  IF ~file.ok THEN [ok |-> FALSE, set |-> EmptySet]
             ELSE Unmarshal(file.data)

\* ==================================================================
\* Fetcher.FetchAggregated (src/fetcher/fetcher.go)
\* ==================================================================
\* a configured source: its name, the number of its endpoints and its rate limit
Source(name, n, limit) == [Name |-> name, n |-> n, RateLimit |-> limit]

\* the source lists UseSources may have set: none, one source with two
\* endpoints and a rate limit, two sources, and a list with a source that fails
\* Validate (no endpoints)
SourceLists ==
    {<< >>,
     <<Source("primary", 2, ProviderRateLimit)>>,
     <<Source("primary", 1, 0), Source("backup", 1, 0)>>,
     <<Source("primary", 1, 0), Source("backup", 0, 0)>>}

\* SourceConfig.Validate, as far as the model's sources can fail it
Validate(source) == source.n > 0

\* the endpoint lists of length n, each with what its server does in this call
EndpointListsOf(n) == {l \in EndpointLists : Len(l) = n}

\* the providers FetchAggregated may build from the configs, one per source,
\* over everything the servers may do
RECURSIVE ProviderSets(_)
ProviderSets(configs) ==
    IF Len(configs) = 0 THEN {<< >>}
    ELSE {<<Build([Name |-> Head(configs).Name, Endpoints |-> l,
                   RateLimit |-> Head(configs).RateLimit])>> \o rest :
             l \in EndpointListsOf(Head(configs).n), rest \in ProviderSets(Tail(configs))}

\* errors.Join(errs...) is nil exactly when errs is empty
IsNilErr(errs) == Len(errs) = 0

\* what the cache file decodes to
CacheContent(f) ==
    LET loaded == LoadAggregatedFromCache(f, "cache")
    IN  [has |-> loaded.ok, set |-> IF loaded.ok THEN loaded.set ELSE EmptySet]

\* a return statement of FetchAggregated
AggReturn(set, errs) == [set |-> set, errs |-> errs]

\* FetchAggregated is called: without sources, or with a source that does not
\* validate, it returns at once; else one goroutine per provider is started
AggCall ==
    /\ fagg.pc \in {"idle", "returned"}
    /\ fagg.calls < MaxCalls
    /\ LET f == [fagg EXCEPT !.calls = @ + 1, !.provs = << >>, !.ch = << >>, !.got = 0,
                             !.entries = NewAggregator, !.errs = << >>,
                             !.ret = NoAggRet, !.atCall = CacheContent(fs)]
       IN  IF Len(fagg.configs) = 0
           THEN fagg' = [f EXCEPT !.pc = "returned",
                                  !.ret = AggReturn(EmptySet, <<"nosources">>)]
           ELSE IF \E i \in 1..Len(fagg.configs) : ~Validate(fagg.configs[i])
           THEN fagg' = [f EXCEPT !.pc = "returned",
                                  !.ret = AggReturn(EmptySet, <<"invalid">>)]
           ELSE \E ps \in ProviderSets(fagg.configs) :
                    fagg' = [f EXCEPT !.pc = "running", !.provs = ps]
    /\ UNCHANGED <<scanVars, fs>>
    /\ UNCHANGED exceptFetchAgg

\* the goroutine of some provider k takes a step of Provider.Fetch; when Fetch has
\* returned, the result goes into the channel, which has room for all
AggGoroutine ==
    /\ fagg.pc = "running"
    /\ \E k \in 1..Len(fagg.provs) :
         \E q \in FetchSteps(fagg.provs[k], ctxDone) :
             fagg' = [fagg EXCEPT !.provs[k] = q,
                                  !.ch = IF q.pc = "done" THEN Append(@, k) ELSE @]
    /\ UNCHANGED <<scanVars, fs>>
    /\ UNCHANGED exceptFetchAgg

\* the collecting loop receives the next result: records go to the aggregator,
\* an error to errs
AggReceive ==
    /\ fagg.pc = "running"
    /\ fagg.got < Len(fagg.ch)
    /\ LET res == fagg.provs[fagg.ch[fagg.got + 1]].ret
       IN  fagg' = [fagg EXCEPT
                      !.got = @ + 1,
                      !.entries = IF Len(res.records) > 0 THEN Add(@, res.records) ELSE @,
                      !.errs = IF res.err # "nil" THEN Append(@, res.err) ELSE @]
    /\ UNCHANGED <<scanVars, fs>>
    /\ UNCHANGED exceptFetchAgg

\* mutant: the cache is consulted only when no provider reported an error
AggFinishNoFallback(set, errs, cacheDir, f) ==
    IF Len(set.Entries) > 0
    THEN LET persisted == Persist(f, set, cacheDir)
         IN  [fs |-> persisted.fs,
              ret |-> AggReturn(set, IF persisted.ok THEN errs
                                     ELSE Append(errs, "persist cache"))]
    ELSE LET cached == LoadAggregatedFromCache(f, cacheDir)
         IN  IF cacheDir # "" /\ cached.ok /\ Len(errs) = 0
             THEN [fs |-> f, ret |-> AggReturn(cached.set, errs)]
             ELSE [fs |-> f,
                   ret |-> AggReturn(EmptySet,
                                     IF cacheDir # "" THEN Append(errs, "cache")
                                     ELSE IF Len(errs) = 0 THEN <<"no results fetched">>
                                     ELSE errs)]

\* the end of FetchAggregated, the channel drained: a set with entries is
\* persisted and returned; else the cached set is returned if it loads; else
\* the empty set; the errors gathered go with each
AggFinish(set, errs, cacheDir, f) ==
    IF Len(set.Entries) > 0
    THEN LET persisted == Persist(f, set, cacheDir)
         IN  [fs |-> persisted.fs,
              ret |-> AggReturn(set, IF persisted.ok THEN errs
                                     ELSE Append(errs, "persist cache"))]
    ELSE LET cached == LoadAggregatedFromCache(f, cacheDir)
         IN  IF cacheDir # "" /\ cached.ok
             THEN [fs |-> f, ret |-> AggReturn(cached.set, errs)]
             ELSE [fs |-> f,
                   ret |-> AggReturn(EmptySet,
                                     IF cacheDir # "" THEN Append(errs, "cache")
                                     ELSE IF Len(errs) = 0 THEN <<"no results fetched">>
                                     ELSE errs)]

\* every goroutine has sent and the channel is closed and drained
AggEnd ==
    /\ fagg.pc = "running"
    /\ fagg.got = Len(fagg.provs)
    /\ LET set == Result(fagg.entries)
           end == AggFinish(set, fagg.errs, fagg.cacheDir, fs)
       IN  /\ fs' = end.fs
           /\ fagg' = [fagg EXCEPT
                         !.pc = "returned",
                         !.ret = end.ret,
                         !.lastCached = IF Len(set.Entries) > 0 /\ fagg.cacheDir # ""
                                        THEN [has |-> TRUE, set |-> set] ELSE @]
    /\ UNCHANGED scanVars
    /\ UNCHANGED exceptFetchAgg

\* the set an earlier run of the program may have left in the cache
OldSet ==
    Result(Add(NewAggregator,
               <<[Network |-> "2.2.2.0/24",
                  Metadata |-> [Source |-> "backup", Endpoint |-> "https://h/e1"]]>>))

InitFetchAgg ==
    /\ cfg = [variant |-> "policy", Retries |-> 0, RateLimit |-> 0, Parallelism |-> 1]
    /\ InitCommon
    /\ daemon = NoDaemon
    /\ pers = NoPersist
    /\ smp = NoSampler
    /\ prb = NoProber
    /\ fall = NoFetchAll
    /\ prov = NoProvider
    /\ agg = NoAgg
    /\ fs \in {NoFS, Persist(NoFS, OldSet, "cache").fs}
    /\ \E configs \in SourceLists, dir \in {"", "cache"} :
         fagg = [NoFetchAgg EXCEPT !.configs = configs, !.cacheDir = dir, !.pc = "idle",
                                   !.lastCached = CacheContent(fs)]

NextFetchAgg ==
    \/ AggCall
    \/ AggGoroutine
    \/ AggReceive
    \/ AggEnd
    \/ Cancel

SpecFetchAgg == InitFetchAgg /\ [][NextFetchAgg]_vars

\* ==================================================================
\* Concurrent AggregatedSet.Persist calls on one cache directory
\* ==================================================================
\* the sets the concurrent FetchAggregated calls have aggregated
PersistedSets ==
    {Result(Add(NewAggregator,
                <<[Network |-> n,
                   Metadata |-> [Source |-> "primary", Endpoint |-> "https://h/e1"]]>>)) :
        n \in {"10.0.0.0/24", "1.1.1.0/24"}}

\* a goroutine about to call Persist(set)
Persister(set) == [pc |-> "open", set |-> set, ino |-> 0, ok |-> TRUE]

\* the inodes held open by the goroutines other than k
HeldByOthers(k) ==
    {pers.w[j].ino : j \in {i \in 1..Len(pers.w) : i # k /\ pers.w[i].pc = "write"}}

\* os.WriteFile opens ranges.json.tmp, creating or truncating it
PersistOpen ==
    \E k \in 1..Len(pers.w) :
        /\ pers.w[k].pc = "open"
        /\ LET opened == OpenTrunc(fs, "ranges.json.tmp", HeldByOthers(k))
           IN  /\ fs' = opened.fs
               /\ pers' = [pers EXCEPT !.w[k].pc = "write", !.w[k].ino = opened.ino]
        /\ UNCHANGED exceptPersist

\* os.WriteFile writes the payload and closes the file
PersistWrite ==
    \E k \in 1..Len(pers.w) :
        /\ pers.w[k].pc = "write"
        /\ fs' = WriteAll(fs, pers.w[k].ino, Marshal(pers.w[k].set), HeldByOthers(k))
        /\ pers' = [pers EXCEPT !.w[k].pc = "rename", !.w[k].ino = 0]
        /\ UNCHANGED exceptPersist

\* os.Rename moves ranges.json.tmp over ranges.json; Persist returns its error
PersistRename ==
    \E k \in 1..Len(pers.w) :
        /\ pers.w[k].pc = "rename"
        /\ LET renamed == Rename(fs, "ranges.json.tmp", "ranges.json", HeldByOthers(k))
           IN  /\ fs' = renamed.fs
               /\ pers' = [pers EXCEPT !.w[k].pc = "done", !.w[k].ok = renamed.ok]
        /\ UNCHANGED exceptPersist

\* a reader reads ranges.json
ReadCache ==
    /\ LET file == ReadFile(fs, "ranges.json")
       IN  pers' = [pers EXCEPT !.read = [done |-> TRUE, ok |-> file.ok, data |-> file.data]]
    /\ UNCHANGED fs
    /\ UNCHANGED exceptPersist

InitPersist ==
    /\ cfg = [variant |-> "policy", Retries |-> 0, RateLimit |-> 0, Parallelism |-> 1]
    /\ InitCommon
    /\ daemon = NoDaemon
    /\ smp = NoSampler
    /\ prb = NoProber
    /\ fall = NoFetchAll
    /\ prov = NoProvider
    /\ agg = NoAgg
    /\ fagg = NoFetchAgg
    /\ fs \in {NoFS, Persist(NoFS, OldSet, "cache").fs}
    /\ \E n \in 1..MaxPersisters : \E sets \in [1..n -> PersistedSets] :
         pers = [NoPersist EXCEPT !.w = [k \in 1..n |-> Persister(sets[k])]]

NextPersist ==
    \/ PersistOpen
    \/ PersistWrite
    \/ PersistRename
    \/ ReadCache

SpecPersist == InitPersist /\ [][NextPersist]_vars

\* ==================================================================
\* Sampler (src/sampler/sampler.go)
\* ==================================================================
\* 2^n
RECURSIVE Pow2(_)
Pow2(n) == IF n <= 0 THEN 1 ELSE 2 * Pow2(n - 1)

\* a *net.IPNet as net.ParseCIDR returns it: the masked base address (as a
\* number), the mask's ones and bits, and whether IP.To4() # nil
IPNet(base, ones, bits, isV4) == [IP |-> base, ones |-> ones, bits |-> bits, v4 |-> isV4]

Net30 == IPNet(16, 30, 32, TRUE)        \* "1.1.1.0/30" with 1.1.1.0 numbered 16
Net32 == IPNet(17, 32, 32, TRUE)        \* "1.1.1.1/32"
Net127 == IPNet(64, 127, 128, FALSE)    \* "2001:db8::/127" with 2001:db8:: numbered 64

\* a net.IP: the address, whether To4() # nil, and the slice's length
IPAddr(addr, isV4, len) == [addr |-> addr, v4 |-> isV4, len |-> len]

\* net.IP.String(): the 4-byte and the 16-byte form of an IPv4 address print alike
String(ip) == [addr |-> ip.addr, v4 |-> ip.v4]

\* the values randomIP may return for a network
randomIP(network) ==
    LET span == network.bits - network.ones
    IN  IF span <= 0
        THEN {IPAddr(network.IP, network.v4, IF network.v4 THEN 4 ELSE 16)}
        ELSE {IPAddr(network.IP + offset, network.v4, IF network.bits = 32 THEN 4 ELSE 16) :
                 offset \in 0..(Pow2(span) - 1)}

\* weightForNetwork: 2^min(bits - ones, 16)
weightForNetwork(network) ==
    LET diff == network.bits - network.ones
    IN  Pow2(IF diff > 16 THEN 16 ELSE diff)

\* int(math.Round(total * weight / weightSum)) for positive operands
Portion(total, weight, weightSum) == (2 * total * weight + weightSum) \div (2 * weightSum)

PickFailed == [ok |-> FALSE, ip |-> IPAddr(0, FALSE, 0)]

\* mutant: the picked IP is returned without being entered in the history
PickedNotRemembered(h, ip) == h

\* s.history[key] = struct{}{}
Picked(h, ip) == h \cup {String(ip)}

\* pickUniqueIP under the mutex from the given try on: the outcomes the random
\* generator allows, a fresh IP at some try or none in maxTries tries
RECURSIVE pickUniqueIP(_, _, _)
pickUniqueIP(network, h, try) ==
    IF try >= maxTries THEN {PickFailed}
    ELSE {[ok |-> TRUE, ip |-> ip] : ip \in {r \in randomIP(network) : String(r) \notin h}}
         \cup (IF \E r \in randomIP(network) : String(r) \in h
               THEN pickUniqueIP(network, h, try + 1) ELSE {})

\* a fetcher.SourceRange: weights are kept doubled, 0.5 being the smallest
SourceRange(name, weight2, ipv4, ipv6) ==
    [Name |-> name, Weight2 |-> weight2, IPv4 |-> ipv4, IPv6 |-> ipv6]

\* the provider Sample wraps its RangeSet in
Official(ipv4, ipv6) == SourceRange("official", 2, ipv4, ipv6)

NetworksOf(source) == source.IPv4 \o source.IPv6

\* the weight SampleSources gives a source: 1 for a weight <= 0
SourceWeight2(source) == IF source.Weight2 <= 0 THEN 2 ELSE source.Weight2

RECURSIVE SumSeq(_)
SumSeq(q) == IF Len(q) = 0 THEN 0 ELSE Head(q) + SumSeq(Tail(q))

\* a call of Sample or SampleSources under way: the position in the loops of
\* SampleSources (i) and sampleRange (n, j), the portions, and the slices;
\* added is history, the keys this call has entered in the sampler's history
NoCall == [pc |-> "idle", sources |-> << >>, total |-> 0, i |-> 0, portionS |-> 0,
           n |-> 0, portionN |-> 0, j |-> 0, cands |-> << >>, results |-> << >>,
           err |-> "nil", added |-> {}]

\* mutant: the rule of sampleWithSources, an empty result is an error
SampleDoneOrNone(c, res, err) ==
    [c EXCEPT !.pc = "done", !.results = res,
              !.err = IF err = "nil" /\ Len(res) = 0 THEN "nonetworks" ELSE err]

SampleDone(c, res, err) == [c EXCEPT !.pc = "done", !.results = res, !.err = err]

RECURSIVE RunSource(_)
RECURSIVE RunNetwork(_)
RECURSIVE RunPick(_)

\* the loop of SampleSources at its head: the source's portion, then sampleRange
RunSource(c) ==
    IF c.i > Len(c.sources) \/ c.total - Len(c.results) <= 0
    THEN SampleDone(c, c.results, "nil")
    ELSE LET source == c.sources[c.i]
             weightSum == SumSeq([k \in 1..Len(c.sources) |-> SourceWeight2(c.sources[k])])
             rounded == Portion(c.total, SourceWeight2(source), weightSum)
             atLeast1 == IF rounded <= 0 THEN 1 ELSE rounded
             remaining == c.total - Len(c.results)
             portion == IF atLeast1 > remaining THEN remaining ELSE atLeast1
         IN  IF Len(NetworksOf(source)) = 0
             THEN SampleDone(c, << >>, "nonetworks")
             ELSE RunNetwork([c EXCEPT !.portionS = portion, !.n = 1, !.cands = << >>])

\* the loop of sampleRange at its head: the network's portion, or the return
\* to SampleSources, which appends the candidates
RunNetwork(c) ==
    LET networks == NetworksOf(c.sources[c.i])
    IN  IF c.n > Len(networks) \/ Len(c.cands) >= c.portionS
        THEN RunSource([c EXCEPT !.results = @ \o c.cands, !.cands = << >>, !.i = @ + 1])
        ELSE LET weightSum == SumSeq([k \in 1..Len(networks) |->
                                         weightForNetwork(networks[k])])
                 rounded == Portion(c.portionS, weightForNetwork(networks[c.n]), weightSum)
             IN  RunPick([c EXCEPT !.portionN = IF rounded <= 0 THEN 1 ELSE rounded,
                                   !.j = 0])

\* the inner loop of sampleRange at its head: a pick is due, or the next network
RunPick(c) ==
    IF c.j < c.portionN /\ Len(c.cands) < c.portionS
    THEN [c EXCEPT !.pc = "pick"]
    ELSE RunNetwork([c EXCEPT !.n = @ + 1])

\* SampleSources up to its first pick
SampleSources(sources, total) ==
    LET c == [NoCall EXCEPT !.sources = sources, !.total = total, !.i = 1]
    IN  IF total <= 0 THEN SampleDone(c, << >>, "total")
        ELSE IF Len(sources) = 0 THEN SampleDone(c, << >>, "nosources")
        ELSE RunSource(c)

\* Sample: SampleSources over the RangeSet as the official provider's
Sample(ipv4, ipv6, total) == SampleSources(<<Official(ipv4, ipv6)>>, total)

\* a Candidate; fresh is history, telling that the IP's key was not in the
\* sampler's history when pickUniqueIP chose it
Candidate(ip, network, source, h) ==
    [IP |-> ip, Network |-> network, Source |-> source.Name,
     fresh |-> String(ip) \notin h]

\* the arguments callers pass
SampleTotals == 0..MaxTotal
RangeLists == {<< >>, <<Net32, Net30>>}
SourceLists2 ==
    {<< >>,
     <<SourceRange("official", 2, <<Net30>>, <<Net127>>),
       SourceRange("mirror", 1, <<Net32>>, << >>)>>,
     <<SourceRange("official", 0, <<Net32>>, << >>),
       SourceRange("mirror", 1, << >>, << >>)>>}

\* the goroutines that share the sampler
Callers == {"scan", "daemon"}

\* goroutine k calls Sample or SampleSources
SmpCall ==
    \E k \in Callers :
        /\ smp.g[k].pc = "idle"
        /\ \E total \in SampleTotals :
             \E c \in {Sample(ipv4, <<Net127>>, total) : ipv4 \in RangeLists}
                      \cup {SampleSources(sources, total) : sources \in SourceLists2} :
                 smp' = [smp EXCEPT !.g[k] = c]
        /\ UNCHANGED exceptSampler

\* goroutine k is in pickUniqueIP, holding the mutex; then it runs on to its
\* next pick or to the end of the call
SmpPick ==
    \E k \in Callers :
        /\ smp.g[k].pc = "pick"
        /\ LET c == smp.g[k]
               source == c.sources[c.i]
               network == NetworksOf(source)[c.n]
           IN  \E got \in pickUniqueIP(network, smp.history, 0) :
                   LET d == RunPick([c EXCEPT
                                 !.j = @ + 1,
                                 !.added = IF got.ok
                                           THEN @ \cup (Picked(smp.history, got.ip)
                                                           \ smp.history)
                                           ELSE @,
                                 !.cands = IF got.ok
                                           THEN Append(@, Candidate(got.ip, network, source,
                                                                    smp.history))
                                           ELSE @])
                   IN  smp' = [smp EXCEPT
                                 !.history = IF got.ok THEN Picked(@, got.ip) ELSE @,
                                 !.g[k] = d]
        /\ UNCHANGED exceptSampler

\* some goroutine calls Remember(ip)
SmpRemember ==
    /\ smp.remembers < MaxRemembers
    /\ \E ip \in {IPAddr(18, TRUE, 16), IPAddr(64, FALSE, 16)} :
         smp' = [smp EXCEPT !.history = @ \cup {String(ip)}, !.remembers = @ + 1]
    /\ UNCHANGED exceptSampler

\* sampler.New(previous): the history seeded with the keys of previous
NewSampler(previous) == {String(ip) : ip \in previous}

InitSampler ==
    /\ cfg = [variant |-> "policy", Retries |-> 0, RateLimit |-> 0, Parallelism |-> 1]
    /\ InitCommon
    /\ daemon = NoDaemon
    /\ FetcherIdle
    /\ ProberIdle
    /\ \E previous \in {{}, {IPAddr(17, TRUE, 16)}} :
         smp = [NoSampler EXCEPT !.history = NewSampler(previous),
                                 !.g = [k \in Callers |-> NoCall]]

NextSampler ==
    \/ SmpCall
    \/ SmpPick
    \/ SmpRemember

SpecSampler == InitSampler /\ [][NextSampler]_vars

\* ==================================================================
\* Prober.Probe, ApplyValidation and Score on one measurement
\* (src/prober/prober.go, src/scorer/scorer.go)
\* ==================================================================
\* what the network makes one probe observe: which of the TCP, TLS, request
\* construction, HTTP and body-read steps succeed, and what the peer presents
StatusCodes == {100, 200, 399, 400, 404, 500}
Certificates ==
    {[cn |-> "example.com", dns |-> << >>],
     [cn |-> "Trusted.Third", dns |-> << >>],
     [cn |-> "mismatch", dns |-> <<"alt.mismatch", "Trusted.Third">>]}
ProbeOutcomes ==
    [tcp : BOOLEAN, tls : BOOLEAN, req : BOOLEAN, http : BOOLEAN, read : BOOLEAN,
     status : StatusCodes, cert : Certificates, origin : {"", "ORIGIN.THIRD"},
     latency : {15, 600}]

\* the older rule of src/unnamed/part_004: any status below 500 counts
ProbeSuccessBelow500(status, error) == error = "" /\ status < 500

\* m.Success = resp.StatusCode >= 200 && resp.StatusCode < 400 && m.Error == ""
ProbeSuccess(status, error) == status >= 200 /\ status < 400 /\ error = ""

\* the fields Probe has filled in when it stops after the named step
Observed(o, error, tlsDone, httpDone) ==
    [Success |-> httpDone /\ ProbeSuccess(o.status, error),
     Error |-> error,
     CertificateCN |-> IF tlsDone THEN o.cert.cn ELSE "",
     CertificateDNSNames |-> IF tlsDone THEN o.cert.dns ELSE << >>,
     OriginHost |-> IF httpDone THEN TrimSpace(o.origin) ELSE "",
     HTTPStatus |-> IF httpDone THEN o.status ELSE 0,
     Latency |-> IF httpDone THEN o.latency ELSE 0,
     Throughput |-> IF httpDone THEN ThroughputIdeal ELSE 0]

\* Prober.Probe: the measurement and the error it returns
Probe(ip, domain, o) ==
    IF ip = "" THEN [m |-> NilMeasurement, err |-> "ip is nil"]
    ELSE IF domain = "" THEN [m |-> NilMeasurement, err |-> "domain is required"]
    ELSE IF ~o.tcp
    THEN [m |-> NewMeasurement(ip, domain, Observed(o, "tcp dial", FALSE, FALSE)),
          err |-> "nil"]
    ELSE IF ~o.tls
    THEN [m |-> NewMeasurement(ip, domain, Observed(o, "tls dial", FALSE, FALSE)),
          err |-> "nil"]
    ELSE IF ~o.req THEN [m |-> NilMeasurement, err |-> "request"]
    ELSE IF ~o.http
    THEN [m |-> NewMeasurement(ip, domain, Observed(o, "http", TRUE, FALSE)),
          err |-> "nil"]
    ELSE [m |-> NewMeasurement(ip, domain,
                    Observed(o, IF o.read THEN "" ELSE "read body", TRUE, TRUE)),
          err |-> "nil"]

\* history: the step of Probe that failed, judged from the outcome alone
FailedStep(ip, domain, o) ==
    IF ip = "" \/ domain = "" THEN "args"
    ELSE IF ~o.tcp THEN "tcp" ELSE IF ~o.tls THEN "tls" ELSE IF ~o.req THEN "request"
    ELSE IF ~o.http THEN "http" ELSE IF ~o.read THEN "read" ELSE "none"

\* the arguments the scheduler passes to ApplyValidation
ExpectedOrigins == {"", "origin.third"}
TrustedLists == {<< >>, <<"trusted.third">>, <<" ">>, <<"">>, <<"example.com">>}

\* a caller probes an address
PrbProbe ==
    /\ prb.pc = "off"
    /\ \E ip \in {"", "1.1.1.1"} : \E domain \in {"", "example.com"} :
         \E o \in ProbeOutcomes :
           LET r == Probe(ip, domain, o)
           IN  prb' = [prb EXCEPT !.pc = IF r.err = "nil" THEN "probed" ELSE "failed",
                                  !.m = r.m, !.err = r.err, !.step = FailedStep(ip, domain, o)]
    /\ UNCHANGED exceptProber

\* the caller applies ApplyValidation to the measurement it holds
PrbValidate ==
    /\ prb.pc = "probed"
    /\ prb.validations < MaxValidations
    /\ \E expectedOrigin \in ExpectedOrigins : \E trustedCNs \in TrustedLists :
         prb' = [prb EXCEPT !.m = ApplyValidation(@, expectedOrigin, trustedCNs),
                            !.validations = @ + 1]
    /\ UNCHANGED exceptProber

\* the caller scores the measurement it holds
PrbScore ==
    /\ prb.pc = "probed"
    /\ prb' = [prb EXCEPT !.pc = "scored", !.result = Score(prb.m)]
    /\ UNCHANGED exceptProber

InitProber ==
    /\ cfg = [variant |-> "policy", Retries |-> 0, RateLimit |-> 0, Parallelism |-> 1]
    /\ InitCommon
    /\ daemon = NoDaemon
    /\ FetcherIdle
    /\ SamplerIdle
    /\ prb = NoProber

NextProber ==
    \/ PrbProbe
    \/ PrbValidate
    \/ PrbScore

SpecProber == InitProber /\ [][NextProber]_vars

\* ==================================================================
\* RunDaemon over a real Sampler (src/unnamed/part_007, src/sampler/sampler.go)
\* ==================================================================
NetThird == IPNet(2, 32, 32, TRUE)      \* "1.0.0.2/32" with 1.0.0.2 numbered 2

\* the blocks every fetch of the daemon returns
DaemonBlocks ==
    <<SourceRange("official", 2, <<Net32>>, << >>),
      SourceRange("third-party", 1, <<NetThird>>, << >>)>>

\* the Candidate as the scan reads it: the entry of CandidatePool with the
\* sampled address in its text form
PoolCandidate(c) ==
    LET text == CASE c.IP.addr = 17 -> "1.1.1.1"
                  [] c.IP.addr = 2 -> "1.0.0.2"
                  [] OTHER -> ""
    IN  CHOOSE p \in SeqToSet(CandidatePool) : p.IP = text

\* every address of the daemon's blocks is in the sampler's history
Exhausted ==
    \A i \in 1..Len(DaemonBlocks) : \A n \in 1..Len(NetworksOf(DaemonBlocks[i])) :
        \A ip \in randomIP(NetworksOf(DaemonBlocks[i])[n]) : String(ip) \in smp.history

\* Scan calls s.Sampler.SampleSources(sources, total); full is history, telling
\* that the blocks were exhausted when the call began
ScanSample ==
    /\ pc = "idle"
    /\ daemon.pc = "scan"
    /\ smp.g["scan"].pc \in {"idle", "returned"}
    /\ smp' = [smp EXCEPT !.g["scan"] = SampleSources(DaemonBlocks, daemon.total),
                          !.full = Exhausted]
    /\ UNCHANGED exceptSampler

\* SampleSources has returned to Scan: an error or an empty list ends the
\* scan, else the loop is entered
ScanSampled ==
    /\ pc = "idle"
    /\ daemon.pc = "scan"
    /\ smp.g["scan"].pc = "done"
    /\ smp' = [smp EXCEPT !.g["scan"].pc = "returned"]
    /\ LET c == smp.g["scan"]
       IN  IF c.err # "nil"
           THEN /\ ret' = ReturnErr("sample", "sample")
                /\ pc' = "done"
                /\ UNCHANGED candidates
           ELSE /\ candidates' = [i \in 1..Len(c.results) |-> PoolCandidate(c.results[i])]
                /\ IF Len(c.results) = 0
                   THEN ret' = ReturnErr("nil", "empty") /\ pc' = "done"
                   ELSE ret' = ret /\ pc' = "loop"
    /\ idx' = 1
    /\ UNCHANGED <<cfg, ctxDone, now, store, attempt, cur, lastProbe, results, timer,
                   probes, tryRet>>
    /\ UNCHANGED parVars
    /\ UNCHANGED <<daemon, fetchVars, prb>>

InitDaemonSampler ==
    /\ cfg = [variant |-> "policy", Retries |-> 0, RateLimit |-> 0, Parallelism |-> 1]
    /\ InitCommon
    /\ \E total \in 1..DaemonTotal :
         daemon = [NoDaemon EXCEPT !.pc = "call", !.total = total]
    /\ FetcherIdle
    /\ ProberIdle
    /\ \E previous \in {{}, {IPAddr(17, TRUE, 16)}} :
         smp = [NoSampler EXCEPT !.history = NewSampler(previous),
                                 !.g = [k \in Callers |-> NoCall]]

NextDaemonSampler ==
    \/ DaemonCancel
    \/ DaemonCall
    \/ DaemonFetch
    \/ DaemonAfterScan
    \/ DaemonResume
    \/ DaemonTickerFires
    \/ ScanSample
    \/ SmpPick
    \/ ScanSampled
    \/ LoopHead
    \/ ProbeStart
    \/ ProbeReturn
    \/ Enrich
    \/ ScoreAndSave

SpecDaemonSampler == InitDaemonSampler /\ [][NextDaemonSampler]_vars

\* -------------------------------------------- parallel scan, to its end
\* how long a timer takes does not matter to whether the scan ends: here the
\* ticker and the retry pauses fire without a clock being read

\* ticker.C delivers a tick: to a worker parked in the start select, else into
\* the channel's one-slot buffer (a tick that finds the buffer full is dropped)
TickerFires ==
    /\ ticker.on
    /\ ~ticker.stopped
    /\ IF Parked # {}
       THEN /\ \E k \in Parked :
                 /\ workers' = StartProbes(workers, {k})
                 /\ probes' = LoggedAll(probes, {k}, now)
            /\ ticker' = ticker
       ELSE /\ ticker.buf = 0
            /\ ticker' = [ticker EXCEPT !.buf = 1]
            /\ UNCHANGED <<workers, probes>>
    /\ UNCHANGED <<cfg, candidates, ctxDone, now, store, pc, idx, attempt, cur, lastProbe,
                   results, ret, timer, tryRet, scanCancelled, sem, resultCh, errSeen>>
    /\ UNCHANGED otherVars

\* time.After(100ms) fires in worker k's tryProbe: the next attempt starts
PauseEnds(k) ==
    /\ workers[k].pc = "pause"
    /\ workers' = StartProbes(workers, {k})
    /\ probes' = LoggedAll(probes, {k}, now)
    /\ UNCHANGED <<cfg, candidates, ctxDone, now, store, pc, idx, attempt, cur, lastProbe,
                   results, ret, timer, tryRet, scanCancelled, sem, resultCh, ticker,
                   errSeen>>
    /\ UNCHANGED otherVars

PausesEnd == \E k \in 1..MaxCandidates : PauseEnds(k)
WorkerStarts == \E k \in 1..MaxCandidates : WorkerStart(k)
WorkerWakes == \E k \in 1..MaxCandidates : WorkerWoken(k)
WorkerProbeReturns == \E k \in 1..MaxCandidates : WorkerProbeReturn(k)
WorkerSaves == \E k \in 1..MaxCandidates : WorkerSave(k)

NextParLive ==
    \/ Cancel
    \/ TickerFires
    \/ PausesEnd
    \/ ScanBeginPar
    \/ Dispatch
    \/ WorkerStarts
    \/ WorkerWakes
    \/ WorkerProbeReturns
    \/ WorkerSaves
    \/ CloseResults
    \/ Collect

\* the Go scheduler runs every runnable goroutine, the runtime's timers fire,
\* and every call of Probe and Save returns; when the caller cancels is left
\* open
FairPar ==
    /\ WF_vars(TickerFires)
    /\ WF_vars(ScanBeginPar)
    /\ WF_vars(Dispatch)
    /\ WF_vars(CloseResults)
    /\ WF_vars(Collect)
    /\ \A k \in 1..MaxCandidates :
         /\ WF_vars(PauseEnds(k))
         /\ WF_vars(WorkerStart(k))
         /\ WF_vars(WorkerWoken(k))
         /\ WF_vars(WorkerProbeReturn(k))
         /\ WF_vars(WorkerSave(k))

\* the configurations in which a worker waits on at most one kind of timer:
\* the rate ticker or the retry pause
InitParLive ==
    /\ InitPar
    /\ cfg.Retries = 0 \/ cfg.RateLimit = 0

SpecParLive == InitParLive /\ [][NextParLive]_vars /\ FairPar

\* ------------------------------------------ sequential scan, any Retries
\* Retries is an int field the caller sets freely: negative values included
AnyRetries == (0 - MaxRetries - 1)..MaxRetries

InitSeqAnyRetries ==
    /\ cfg \in [variant : {"policy", "pool"}, Retries : AnyRetries,
                RateLimit : {0, RateLimitUnits}, Parallelism : {1}]
    /\ InitCommon
    /\ daemon = NoDaemon
    /\ FetcherIdle
    /\ SamplerIdle
    /\ ProberIdle

SpecSeqAnyRetries == InitSeqAnyRetries /\ [][NextSeq]_vars

\* ------------------------------------------------------------------ claims
Sampled == 1..Len(candidates)
ProbesOf(k) == probes[PoolIndex(candidates[k])]
TryRetOf(k) == tryRet[PoolIndex(candidates[k])]
LastCall(h) == h[Len(h)]

\* C1, first half: tryProbe calls Probe at least once and at most Retries+1
\* times, and every attempt but the last returned a measurement with
\* success=false (a retry only follows a failure, a success ends the loop)
C1_Attempts ==
    \A k \in Sampled :
        /\ Len(ProbesOf(k)) <= cfg.Retries + 1
        /\ TryRetOf(k).returned => Len(ProbesOf(k)) >= 1
        /\ \A j \in 1..(Len(ProbesOf(k)) - 1) :
              /\ ProbesOf(k)[j].returned
              /\ ProbesOf(k)[j].err = "nil"
              /\ ~ProbesOf(k)[j].m.Success

\* C1 as stated: in addition, whenever the last attempt produced a measurement,
\* tryProbe returns that measurement
C1_ReturnsLastAttempt ==
    /\ C1_Attempts
    /\ \A k \in Sampled :
          (TryRetOf(k).returned /\ LastCall(ProbesOf(k)).err = "nil")
             => (TryRetOf(k).err = "nil" /\ TryRetOf(k).m = LastCall(ProbesOf(k)).m)

\* C1 amended: tryProbe returns the last attempt's measurement unless Probe
\* returned an error or the context was cancelled during the pause after a
\* failed attempt; then it returns that error and no measurement
C1_ReturnsLastUnlessError ==
    /\ C1_Attempts
    /\ \A k \in Sampled :
          TryRetOf(k).returned =>
             \/ /\ TryRetOf(k).err = "nil"
                /\ LastCall(ProbesOf(k)).err = "nil"
                /\ TryRetOf(k).m = LastCall(ProbesOf(k)).m
                /\ (TryRetOf(k).m.Success \/ Len(ProbesOf(k)) = cfg.Retries + 1)
             \/ /\ TryRetOf(k).err = "probe"
                /\ LastCall(ProbesOf(k)).err = "probe"
                /\ TryRetOf(k).m = NilMeasurement
             \/ /\ TryRetOf(k).err = "ctx"
                /\ ctxDone
                /\ LastCall(ProbesOf(k)).err = "nil"
                /\ ~LastCall(ProbesOf(k)).m.Success
                /\ Len(ProbesOf(k)) < cfg.Retries + 1
                /\ TryRetOf(k).m = NilMeasurement

\* C1 witness: a second, last attempt failed and its measurement was returned
C1_Witness ==
    \E k \in Sampled :
        /\ TryRetOf(k).returned
        /\ TryRetOf(k).err = "nil"
        /\ Len(ProbesOf(k)) = 2
        /\ ~TryRetOf(k).m.Success

\* C2 as stated: no Probe call starts once the scan's context is cancelled
C2_NoProbeAfterCancel ==
    \A i \in DOMAIN probes : \A j \in 1..Len(probes[i]) : ~probes[i][j].cancelled

\* C3 as stated: after a worker's Probe or Save returned an error no candidate
\* starts its first probe, and Scan returns the first such error
C3_CancelsOnFirstError ==
    /\ \A i \in DOMAIN probes : probes[i] # << >> => ~probes[i][1].afterErr
    /\ (ret.done /\ ret.err \in {"probe", "store"}) => ret.err = errSeen.err

\* C4 as stated: under a rate limit the first probe attempts of two
\* candidates start at least RateLimit apart
C4_StartsSpaced ==
    cfg.RateLimit > 0 =>
        \A i, j \in DOMAIN probes :
            (i # j /\ probes[i] # << >> /\ probes[j] # << >> /\ probes[i][1].at <= probes[j][1].at)
               => probes[j][1].at - probes[i][1].at >= cfg.RateLimit

\* the candidates whose worker holds a semaphore slot
InFlight == {k \in DOMAIN workers : workers[k].pc \notin {"none", "done"}}

\* C5: at most Parallelism candidates are in flight at any moment
C5_BoundedInFlight == Cardinality(InFlight) <= cfg.Parallelism

\* C5 witness: the pool is full of probing workers and a candidate waits
C5_Witness ==
    /\ pc = "dispatch"
    /\ Cardinality(InFlight) = cfg.Parallelism
    /\ \A k \in InFlight : workers[k].pc = "probing"

\* Probe, or Save, returned an error for the k-th candidate of a sequential scan
ProbeFailedAt(k) ==
    ProbesOf(k) # << >> /\ LastCall(ProbesOf(k)).returned /\ LastCall(ProbesOf(k)).err = "probe"

SaveFailedAt(k) == ret.done /\ ret.site = "save" /\ idx = k

\* C6: an error of Probe or Save at the k-th candidate makes the sequential
\* Scan return that error with nil results; candidates after k are neither
\* probed nor saved
C6_ErrorStopsScan ==
    \A k \in Sampled :
        (ProbeFailedAt(k) \/ SaveFailedAt(k)) =>
            /\ ret.done
            /\ ret.nilResults
            /\ ProbeFailedAt(k) => ret.err = "probe"
            /\ SaveFailedAt(k) => ret.err \in {"store", "ctx"}
            /\ Len(store) = k - 1
            /\ \A j \in Sampled : j > k => ProbesOf(j) = << >>

\* C6 witness: the second of three candidates failed after the first was saved
C6_Witness ==
    /\ Len(candidates) = 3
    /\ Len(store) = 1
    /\ (ProbeFailedAt(2) \/ (SaveFailedAt(2) /\ ret.err = "store"))

\* C7: a sequential Scan that returns without error saved one record per
\* candidate, in candidate order, and returns exactly the saved records
C7_OneRecordPerCandidate ==
    (ret.done /\ ret.err = "nil") =>
        /\ Len(store) = Len(candidates)
        /\ \A k \in Sampled : store[k].Measurement.IP = candidates[k].IP
        /\ ret.results = store

\* C7 witness: a finished scan of several candidates, one of which was retried
C7_Witness ==
    /\ ret.done
    /\ ret.err = "nil"
    /\ Len(candidates) >= 2
    /\ \E k \in Sampled : Len(ProbesOf(k)) = 2

\* the candidate a saved record was probed for
CandidateOf(record) ==
    CHOOSE c \in SeqToSet(CandidatePool) : c.IP = record.Measurement.IP

\* C8 as stated: every saved record carries the candidate's source metadata
C8_RecordsCarrySource ==
    \A n \in 1..Len(store) :
        LET m == store[n].Measurement
            c == CandidateOf(store[n])
        IN /\ m.Source = c.Source
           /\ m.Provider = c.Provider
           /\ m.SourceType = c.ProviderKind
           /\ m.SourceWeight = c.Weight
           /\ m.Network = c.Network
           /\ m.Family = c.Family

\* no trusted CN equals the certificate CN or one of its DNS names
CertMismatch(m, c) ==
    /\ c.TrustedCNs # << >>
    /\ \A t \in SeqToSet(c.TrustedCNs) :
          /\ ~EqualFold(t, m.CertificateCN)
          /\ \A d \in SeqToSet(m.CertificateDNSNames) : ~EqualFold(t, d)

\* the origin host differs from the expected origin
OriginMismatch(m, c) == c.ExpectedOrigin # "" /\ ~EqualFold(c.ExpectedOrigin, m.OriginHost)

\* the record flags every expectation of its candidate the measurement misses
FlagsMismatch(r) ==
    /\ CertMismatch(r.Measurement, CandidateOf(r)) =>
          (r.Status = "fail" /\ "certificate_cn_mismatch" \in SeqToSet(r.FailureReasons))
    /\ OriginMismatch(r.Measurement, CandidateOf(r)) =>
          (r.Status = "fail" /\ "origin_host_mismatch" \in SeqToSet(r.FailureReasons))

\* C9 as stated: every record Scan saves for a candidate whose expected origin
\* or trusted CNs the measurement does not match has status fail and carries
\* the matching failure tag
C9_EveryRecordFlagsMismatch == \A n \in 1..Len(store) : FlagsMismatch(store[n])

\* C9 for the Scan that validates ("policy"): its records flag the mismatch,
\* and a mismatch never aborts the scan: once tryProbe has returned a
\* measurement the scan goes on to save it and only the store can refuse
C9_ValidatingScanFlagsMismatch ==
    /\ [](cfg.variant = "policy" => C9_EveryRecordFlagsMismatch)
    /\ [][(pc = "score" /\ pc' # "score" => pc' = "save" /\ ~ret'.done)
          /\ (pc = "save" /\ ret'.done => ret'.site = "save")]_vars

\* C10, first half: under a rate limit every candidate after the first is
\* first probed no earlier than RateLimit after the previous probe completed
C10_GateSpacing ==
    cfg.RateLimit > 0 =>
        \A k \in Sampled :
            (k > 1 /\ ProbesOf(k) # << >>) =>
                ProbesOf(k)[1].at >= LastCall(ProbesOf(k - 1)).doneAt + cfg.RateLimit

\* C10: ... and a cancellation during the gate's wait makes Scan return the
\* context error without probing the candidate
C10_RateGate ==
    /\ []C10_GateSpacing
    /\ [][/\ (pc = "gate" /\ timer.fired = "none" /\ ~ctxDone /\ ctxDone')
                => timer'.fired = "ctx"
          /\ (pc = "gate" /\ timer.fired = "ctx" /\ pc' # "gate")
                => (ret'.done /\ ret'.err = "ctx" /\ ret'.nilResults
                      /\ probes'[PoolIndex(candidates[idx])] = << >>)]_vars

\* C10 witness: a later candidate was probed after the gate made the scan wait
C10_Witness ==
    /\ cfg.RateLimit > 0
    /\ Len(store) >= 1
    /\ \E k \in Sampled : k > 1 /\ ProbesOf(k) # << >> /\ ProbesOf(k)[1].at >= cfg.RateLimit

\* C11 as stated: RunDaemon never returns nil, and a daemon that was running
\* when its context was cancelled returns the context's error
C11_CancelledDaemonReturnsCtxErr ==
    daemon.pc = "returned" =>
        /\ daemon.err # "nil"
        /\ (ctxDone /\ daemon.liveCall) => daemon.err = "ctx"

\* C12 as stated, its safety part: cancelled while running, RunDaemon starts no
\* further fetch-and-scan iteration and Scan does not go on through its
\* candidates (at most the candidate at hand is still probed)
C12_NoWorkAfterCancel ==
    /\ daemon.liveCall => ~daemon.lateFetch
    /\ Cardinality({i \in DOMAIN probes : probes[i] # << >> /\ probes[i][1].cancelled}) <= 1

\* the positions of the providers whose FetchProvider succeeded, and the
\* position of the k-th of them
FetchAllOk == {i \in 1..Len(fall.outcomes) : fall.outcomes[i].ok}
FetchAllKthOk(k) == CHOOSE i \in FetchAllOk : Cardinality({j \in FetchAllOk : j <= i}) = k

\* C13: FetchAll over a non-empty provider list returns, in input order, exactly
\* the SourceRanges of the providers whose fetch succeeded; the error is nil iff
\* every provider succeeded, a partial error naming the failed providers when
\* some but not all failed, and the result is empty with the hard error only
\* when every provider failed
C13_FetchAllOutcome ==
    (fall.pc = "returned" /\ Len(fall.providers) > 0) =>
        LET n == Len(fall.providers)
            failed == (1..n) \ FetchAllOk
            res == fall.ret.results
        IN  /\ Len(fall.outcomes) = n
            /\ Len(res) = Cardinality(FetchAllOk)
            /\ \A k \in 1..Len(res) :
                 LET i == FetchAllKthOk(k)
                     src == fall.outcomes[i].source
                 IN  /\ res[k].Provider = fall.providers[i].Name
                     /\ res[k].IPv4 \cup res[k].IPv6 =
                            {m.s : m \in SeqToSet(src.IPv4) \cup SeqToSet(src.IPv6)}
            /\ (fall.ret.err.kind = "nil") <=> (failed = {})
            /\ (failed # {} /\ FetchAllOk # {}) =>
                 /\ fall.ret.err.kind = "partial"
                 /\ {e.provider : e \in SeqToSet(fall.ret.err.errs)} =
                        {fall.providers[i].Name : i \in failed}
            /\ (fall.ret.err.kind = "all") <=> (FetchAllOk = {})
            /\ (fall.ret.nilResults \/ Len(res) = 0) <=> (FetchAllOk = {})

\* C13's case: three providers, the middle one failed, the other two returned
\* in input order with the partial error
C13_Witness ==
    /\ fall.pc = "returned"
    /\ Len(fall.providers) = 3
    /\ FetchAllOk = {1, 3}
    /\ Len(fall.ret.results) = 2
    /\ fall.ret.err.kind = "partial"

\* the endpoint delivered records
Delivered(endpoint) == fetchEndpoint(endpoint).err = "nil" /\ Len(fetchEndpoint(endpoint).nets) > 0

\* C14 as stated, for FetchProvider: a provider one of whose endpoints returned
\* records does not fail, and its SourceRange holds those records
C14_ProviderFailsOnlyIfAllFail ==
    \A i \in 1..Len(fall.outcomes) :
        LET provider == fall.providers[i]
            got == fall.outcomes[i]
        IN  /\ Delivered(provider.IPv4) =>
                 got.ok /\ SeqToSet(provider.IPv4.nets) \subseteq SeqToSet(got.source.IPv4)
            /\ Delivered(provider.IPv6) =>
                 got.ok /\ SeqToSet(provider.IPv6.nets) \subseteq SeqToSet(got.source.IPv6)

\* the position of a URL among the endpoints of the provider's source
EndpointIndex(url) ==
    CHOOSE i \in 1..Len(prov.config.Endpoints) : prov.config.Endpoints[i].URL = url

\* the records of the endpoints from position i on that serve networks
RECURSIVE ServedRecords(_, _)
ServedRecords(config, i) ==
    IF i > Len(config.Endpoints) THEN << >>
    ELSE (IF config.Endpoints[i].fails THEN << >> ELSE Records(config, config.Endpoints[i]))
         \o ServedRecords(config, i + 1)

AggContributed == {r \in agg.seen : r.Network # NilNetwork}

\* C18: after any sequence of Add calls, Result() holds each distinct CIDR
\* string among the added records exactly once, in strictly increasing order of
\* CIDR string, every entry with at least one provenance record
C18_ResultDedupedAndSorted ==
    agg.resulted =>
        LET res == agg.result
        IN  /\ {res[i].Network : i \in 1..Len(res)} = {r.Network : r \in AggContributed}
            /\ \A i, j \in 1..Len(res) : i # j => res[i].Network # res[j].Network
            /\ \A i \in 1..(Len(res) - 1) :
                 BytesLess(Bytes(res[i].Network), Bytes(res[i + 1].Network))
            /\ \A i \in 1..Len(res) : Len(res[i].Metadata) >= 1

\* C18's case: two Add calls brought the same network from two sources and a
\* second network; Result lists "10.0.0.0/24" before "2.2.2.0/24"
C18_Witness ==
    /\ agg.resulted
    /\ agg.adds = 2
    /\ Len(agg.result) = 2
    /\ agg.result[1].Network = "10.0.0.0/24"
    /\ Len(agg.result[1].Metadata) = 2
    /\ agg.result[2].Network = "2.2.2.0/24"

\* C19 as stated: in every aggregated entry the provenance list holds exactly
\* one record per source that contributed the CIDR, ordered by (source, endpoint)
C19_OneProvenancePerSource ==
    agg.resulted =>
        \A i \in 1..Len(agg.result) :
            LET meta == agg.result[i].Metadata
                net == agg.result[i].Network
            IN  /\ {meta[k].Source : k \in 1..Len(meta)} =
                       {r.Metadata.Source : r \in {c \in AggContributed : c.Network = net}}
                /\ \A k, l \in 1..Len(meta) : k # l => meta[k].Source # meta[l].Source
                /\ \A k \in 1..(Len(meta) - 1) :
                     \/ BytesLess(Bytes(meta[k].Source), Bytes(meta[k + 1].Source))
                     \/ /\ meta[k].Source = meta[k + 1].Source
                        /\ ~BytesLess(Bytes(meta[k + 1].Endpoint), Bytes(meta[k].Endpoint))

\* the ordering half of C19 alone: provenance is ordered by (source, endpoint)
\* and names exactly the contributing sources
C19_ProvenanceOrdered ==
    agg.resulted =>
        \A i \in 1..Len(agg.result) :
            LET meta == agg.result[i].Metadata
                net == agg.result[i].Network
            IN  /\ {meta[k].Source : k \in 1..Len(meta)} =
                       {r.Metadata.Source : r \in {c \in AggContributed : c.Network = net}}
                /\ \A k \in 1..(Len(meta) - 1) :
                     \/ BytesLess(Bytes(meta[k].Source), Bytes(meta[k + 1].Source))
                     \/ /\ meta[k].Source = meta[k + 1].Source
                        /\ ~BytesLess(Bytes(meta[k + 1].Endpoint), Bytes(meta[k].Endpoint))

\* FetchAggregated has returned from a call made with a cache directory
AggReturned == fagg.pc = "returned" /\ fagg.cacheDir # ""

\* every provider of the call failed; so it is when the call had none
AggAllFailed == \A k \in 1..Len(fagg.provs) : fagg.provs[k].ret.err # "nil"

\* the writing half of C16: a call that aggregates at least one entry leaves
\* that set in the cache, and a call in which every provider fails leaves the
\* cache as it was
C16_CacheWritten ==
    AggReturned =>
        /\ Len(Result(fagg.entries).Entries) > 0 =>
               CacheContent(fs) = [has |-> TRUE, set |-> Result(fagg.entries)]
        /\ AggAllFailed => CacheContent(fs) = fagg.atCall

AggFetched == Len(fagg.provs) > 0

C17_ReaderSeesCompleteFile ==
    pers.read.done =>
        \/ ~pers.read.ok
        \/ pers.read.data = <<Marshal(OldSet)>>
        \/ \E k \in 1..Len(pers.w) : pers.read.data = <<Marshal(pers.w[k].set)>>

\* C17 for a Persist call alone in the directory: the reader finds no file, the
\* old file or the new one
C17_LonePersistIsAtomic ==
    (Len(pers.w) = 1 /\ pers.read.done) =>
        \/ ~pers.read.ok
        \/ pers.read.data = <<Marshal(OldSet)>>
        \/ pers.read.data = <<Marshal(pers.w[1].set)>>

\* net.IPNet.Contains: the IP is of the network's family and agrees with the
\* network's base on every bit the mask keeps
Contains(network, ip) ==
    /\ ip.v4 = network.v4
    /\ ip.addr \div Pow2(network.bits - network.ones)
         = network.IP \div Pow2(network.bits - network.ones)

\* the candidates goroutine k's call has handed to its caller
SmpReturned(k) ==
    IF smp.g[k].pc = "done" /\ smp.g[k].err = "nil" THEN smp.g[k].results ELSE << >>

\* C20: across any interleaving of Sample, SampleSources and Remember calls on
\* one Sampler, every returned candidate's IP lies inside that candidate's
\* Network, was not in the history (seed, Remember or earlier picks) when it
\* was picked, and no IP is returned twice.
C20_UniqueInsideNetwork ==
    /\ \A k \in Callers : \A i \in 1..Len(SmpReturned(k)) :
         /\ Contains(SmpReturned(k)[i].Network, SmpReturned(k)[i].IP)
         /\ SmpReturned(k)[i].fresh
    /\ \A k, l \in Callers :
         \A i \in 1..Len(SmpReturned(k)) : \A j \in 1..Len(SmpReturned(l)) :
             (k # l \/ i # j)
                 => String(SmpReturned(k)[i].IP) # String(SmpReturned(l)[j].IP)

\* C20 witness: two concurrent callers have both returned candidates drawn
\* from the same network after a Remember call, and the seeded address was
\* passed over
C20_Witness ==
    /\ smp.remembers >= 1
    /\ String(IPAddr(17, TRUE, 4)) \in smp.history
    /\ \A k \in Callers :
         /\ Len(SmpReturned(k)) >= 1
         /\ \E i \in 1..Len(SmpReturned(k)) : SmpReturned(k)[i].Network = Net30
         /\ \A i \in 1..Len(SmpReturned(k)) : SmpReturned(k)[i].IP.addr # 17

\* a source of the call can still contribute: one of its networks holds an
\* address that is not in the history
CanContribute(c) ==
    \E i \in 1..Len(c.sources) : \E n \in 1..Len(NetworksOf(c.sources[i])) :
        \E ip \in randomIP(NetworksOf(c.sources[i])[n]) : String(ip) \notin smp.history

\* C21: SampleSources(sources, N) never returns more than N candidates, and
\* it returns fewer than N only when no provider can contribute another
\* address that is not in the history.
C21_FullUnlessExhausted ==
    \A k \in Callers :
        (smp.g[k].pc = "done" /\ smp.g[k].err = "nil")
            => /\ Len(smp.g[k].results) <= smp.g[k].total
               /\ Len(smp.g[k].results) < smp.g[k].total => ~CanContribute(smp.g[k])

\* C21, the part that holds: a call never returns more than N candidates
C21_AtMostTotal ==
    \A k \in Callers :
        smp.g[k].pc = "done" => Len(smp.g[k].results) <= smp.g[k].total

\* C22: every Measurement that Probe returns with success=true has
\* HTTPFingerprint.StatusCode in [200, 400) and an empty Error string; a
\* failure of the TCP, TLS, HTTP or body-read step always leaves success=false.
C22_SuccessMeansGoodStatus ==
    (prb.pc # "off" /\ prb.err = "nil")
        => /\ prb.m.Success
                => (prb.m.StatusCode >= 200 /\ prb.m.StatusCode < 400 /\ prb.m.Error = "")
           /\ prb.step \in {"tcp", "tls", "http", "read"} => ~prb.m.Success

\* C22 witness: a probe that came back successful with the last status that
\* still counts
C22_Witness ==
    /\ prb.pc = "probed"
    /\ prb.m.Success
    /\ prb.m.StatusCode = 399
    /\ prb.step = "none"

\* the failure list is empty exactly when both checks passed
FailuresMirrorChecks(v) ==
    (Len(v.Failures) = 0) <=> (v.CertificateMatch /\ v.OriginMatch)

\* C23: in every ValidationResult that ApplyValidation leaves on a
\* measurement, including after ApplyValidation has been applied more than
\* once to the same measurement, the failure list is empty if and only if
\* CertificateMatch and OriginMatch are both true.
C23_FailuresIffMismatch ==
    (prb.pc # "off" /\ prb.validations >= 1) => FailuresMirrorChecks(prb.m.Validation)

\* C23, the part that holds: after the first application to a fresh
\* measurement the failure list is empty exactly when both checks passed
C23_FirstApplication ==
    (prb.pc # "off" /\ prb.validations = 1) => FailuresMirrorChecks(prb.m.Validation)

\* the certificate CN or one of its DNS names equals some trusted CN,
\* letter case aside
NamesTrusted(m, trusted) ==
    \E i \in 1..Len(trusted) :
        \/ EqualFold(m.CertificateCN, trusted[i])
        \/ \E k \in 1..Len(m.CertificateDNSNames) :
               EqualFold(m.CertificateDNSNames[k], trusted[i])

\* C24: ApplyValidation sets CertificateMatch as follows: when the trusted-CN
\* list is non-empty, true iff the certificate CN or one of its DNS names
\* equals some trusted CN case-insensitively; when the list is empty, true iff
\* the certificate CN equals the measurement's domain; a false match appends
\* certificate_cn_mismatch.
C24_CertificateMatchRule ==
    (prb.pc # "off" /\ prb.validations >= 1)
        => LET v == prb.m.Validation
           IN  /\ v.CertificateMatch
                    = (IF Len(v.ExpectedCNs) > 0 THEN NamesTrusted(prb.m, v.ExpectedCNs)
                       ELSE prb.m.CertificateCN = prb.m.Domain)
               /\ ~v.CertificateMatch
                    => "certificate_cn_mismatch" \in SeqToSet(v.Failures)

\* C24, the part that holds: with a trusted CN that is not blank the match is
\* decided by the names, and a false match is in the failure list
C24_NamedListDecides ==
    (prb.pc # "off" /\ prb.validations >= 1)
        => LET v == prb.m.Validation
           IN  /\ (Len(v.ExpectedCNs) > 0 /\ LowerCNs(v.ExpectedCNs) # {})
                    => v.CertificateMatch = NamesTrusted(prb.m, v.ExpectedCNs)
               /\ ~v.CertificateMatch
                    => "certificate_cn_mismatch" \in SeqToSet(v.Failures)

\* C25: whenever Score returns status pass for a measurement that has no
\* validation failures and whose integrity component is below 0.75, the
\* failure list of the result contains integrity_degraded.
C25_PassFlagsDegradedIntegrity ==
    (/\ prb.pc = "scored"
     /\ prb.result.Status = "pass"
     /\ Len(prb.m.Validation.Failures) = 0
     /\ prb.result.Components.integrity < 750)
        => "integrity_degraded" \in SeqToSet(prb.result.Failures)

\* C25, what the code does instead: integrity_degraded marks only results
\* that failed
C25_DegradedOnlyOnFail ==
    (prb.pc = "scored" /\ "integrity_degraded" \in SeqToSet(prb.result.Failures))
        => prb.result.Status = "fail"

\* the sequential Scan has returned an error from inside its loop
SeqAborted ==
    ret.done /\ ret.err # "nil" /\ ret.site \in {"gate", "probe", "pause", "save"}

\* C26: when a sequential Scan aborts with an error at the k-th candidate
\* (probe error, store error or cancellation), the records it already saved
\* for candidates 1..k-1 stay in the store while Scan returns a nil result
\* list, so the store holds records that no Scan result reports.
C26_AbortKeepsSavedRecords ==
    SeqAborted =>
        /\ ret.nilResults
        /\ ret.results = << >>
        /\ Len(store) = idx - 1
        /\ \A j \in 1..(idx - 1) : store[j].Measurement.IP = candidates[j].IP

\* C26 witness: a scan cancelled at its third candidate returned nothing and
\* left the records of the first two in the store
C26_Witness ==
    /\ SeqAborted
    /\ ret.err = "ctx"
    /\ idx = 3
    /\ Len(store) = 2
    /\ ret.nilResults

\* C27: every IP that a SampleSources call adds to the sampler's history is
\* contained in the candidate list that call returns; in particular a call
\* that returns an error leaves the history exactly as it was before the call.
C27_HistoryOnlyHoldsReturned ==
    \A k \in Callers :
        smp.g[k].pc = "done"
            => smp.g[k].added
                 \subseteq {String(SmpReturned(k)[i].IP) : i \in 1..Len(SmpReturned(k))}

\* C27, the part that holds: a call that returns without error returns every
\* address it entered in the history
C27_SuccessReturnsAllPicks ==
    \A k \in Callers :
        (smp.g[k].pc = "done" /\ smp.g[k].err = "nil")
            => smp.g[k].added
                 = {String(smp.g[k].results[i].IP) : i \in 1..Len(smp.g[k].results)}

\* C28: the sampler's history only grows, so in RunDaemon over a fixed finite
\* set of blocks, once every address of those blocks is in the history each
\* later iteration samples zero candidates, saves no record and returns no
\* error, and the daemon keeps looping without ever reporting the exhaustion.
C28_ExhaustedDaemonIdles ==
    /\ [][smp.history \subseteq smp'.history]_vars
    /\ [][smp.full => smp'.full]_vars
    /\ [][smp'.full => store' = store]_vars
    /\ [](smp.full =>
            /\ smp.g["scan"].pc \in {"done", "returned"}
                 => (smp.g["scan"].err = "nil" /\ Len(smp.g["scan"].results) = 0)
            /\ candidates = << >>
            /\ ret.done => (ret.err = "nil" /\ ret.nilResults)
            /\ daemon.pc = "returned" => daemon.err \in {"ctx", "fetch"})

\* C28 witness: after an iteration on exhausted blocks, which saved nothing
\* and returned no error, the daemon has come back to the top of its loop
C28_Witness ==
    /\ smp.full
    /\ Exhausted
    /\ smp.g["scan"].pc = "returned"
    /\ ret.done
    /\ ret.err = "nil"
    /\ Len(store) >= 1
    /\ daemon.pc = "fetch"
    /\ daemon.fetches >= 2

\* the workers scanParallel has started that have not returned yet
Running == {k \in DOMAIN workers : workers[k].pc \notin {"none", "done"}}

\* the items put on resultCh so far: those buffered, those collected as records
\* and the error the collecting loop returned with
ItemsSent == Len(resultCh.buf) + Len(results) + (IF ret.site = "collect" THEN 1 ELSE 0)

\* scanParallel has returned and no goroutine of it is left
ParFinished == pc = "done" /\ ret.done /\ Running = {} /\ sem = 0

\* C29: when every Probe and Save call returns, scanParallel terminates: a
\* running worker can always send on resultCh, every worker that returned has
\* sent exactly one item and given back its semaphore slot, and the
\* dispatcher, the workers and the collecting loop all come to an end, also
\* after a worker failed or the context was cancelled while workers waited on
\* the rate ticker
C29_ScanParallelTerminates ==
    /\ [](Running # {} => CanSend(resultCh))
    /\ [](ItemsSent = Cardinality({k \in DOMAIN workers : workers[k].pc = "done"}))
    /\ [](sem = Cardinality(Running))
    /\ <>[]ParFinished

\* C29 witness: a scan under a rate ticker came to its end with an error
\* collected after the context was done while every candidate had a worker
C29_Witness ==
    /\ ParFinished
    /\ ticker.on
    /\ ret.site = "collect"
    /\ ScanCtxDone
    /\ Len(candidates) = MaxCandidates
    /\ \A k \in 1..Len(candidates) : workers[k].pc = "done"
    /\ \E i \in 1..Len(resultCh.buf) : resultCh.buf[i].err = "ctx"

\* C30: tryProbe never returns a nil measurement together with a nil error,
\* whatever the value of Retries, negative ones included, so that the scan loop
\* never scores or dereferences a nil measurement
C30_TryProbeNeverNilNil ==
    /\ \A i \in DOMAIN tryRet :
         tryRet[i].returned /\ tryRet[i].err = "nil" => tryRet[i].m # NilMeasurement
    /\ ret.err # "panic"

\* C30, "policy": a tryProbe whose loop does not run reports exhaustion
C30_PolicyReportsExhaustion ==
    cfg.variant = "policy" =>
        /\ \A i \in DOMAIN tryRet :
             tryRet[i].returned /\ tryRet[i].err = "nil" => tryRet[i].m # NilMeasurement
        /\ ret.err # "panic"
        /\ cfg.Retries < 0 /\ ret.done /\ ret.site = "probe" => ret.err = "exhausted"
====
